---------------------------- MODULE Spec2Model ----------------------------
(***************************************************************************)
(* A model of jlox-rs, a tree-walking interpreter for Lox.                 *)
(*                                                                         *)
(* Part 1 models Environment (environment.rs): frames of bindings linked   *)
(* by `enclosing`, driven by the machine SpecEnv.                          *)
(*                                                                         *)
(* Strings of the program (lexemes, names, Lox strings) are sequences of   *)
(* one-character strings.  A usize is kept by its representative in        *)
(* (-2^63, 2^63): 0 - 1 is -1, which stands for usize::MAX; the test       *)
(* `distance.eq(&0)` is exact on these representatives.                    *)
(***************************************************************************)
EXTENDS Integers, Sequences, FiniteSets, TLC

VARIABLES
  build,      \* "debug" | "release": the cargo profile the binary was built with
  heap,       \* SpecEnv: the Environment frames, heap[i] = [values, enclosing]
  last,       \* SpecEnv: the last Environment operation, its arguments and result
  pc,         \* Spec: where the prompt loop of Lox is
  runs,       \* Spec: the number of lines given to Lox::run
  input,      \* Spec: the line Lox::run is working on
  toks,       \* Spec: the tokens of the scanner
  stmts,      \* Spec: the statements of the parser
  todo,       \* Spec: the statements Interpreter::interpret has yet to execute
  interp,     \* Spec: the Interpreter of Lox
  stderr,     \* Spec: the errors the scanner, parser and resolver reported for the line
  result,     \* Spec: what the last call of Lox::run returned
  before,     \* Spec: history, the Interpreter when the line was read
  executed    \* Spec: history, the statements executed for the line

envVars == <<heap, last>>
loxVars == <<pc, runs, input, toks, stmts, todo, interp, stderr, result,
             before, executed>>
vars == <<build, heap, last, pc, runs, input, toks, stmts, todo, interp,
          stderr, result, before, executed>>

\* Bounds of the machine SpecEnv.
MaxFrames == 2

Builds == {"debug", "release"}

--------------------------------------------------------------------------
(* Values: token.rs Literal, with the variants interpreter.rs uses.        *)

Nil == [t |-> "nil", n |-> 0, s |-> <<>>]
Number(k) == [t |-> "num", n |-> k, s |-> <<>>]
String(cs) == [t |-> "str", n |-> 0, s |-> cs]
Boolean(b) == [t |-> "bool", n |-> IF b THEN 1 ELSE 0, s |-> <<>>]

--------------------------------------------------------------------------
(* Environment                                                             *)

\* HashMap::new
EmptyMap == [k \in {} |-> Nil]

\* HashMap::insert
MapInsert(m, key, v) == [k \in DOMAIN m \cup {key} |-> IF k = key THEN v ELSE m[k]]

\* Environment::new
Environment_new == [values |-> EmptyMap, enclosing |-> 0]

\* Environment::new_with_enclosing
Environment_new_with_enclosing(e) == [values |-> EmptyMap, enclosing |-> e]

\* A plausible bug: the parent chain is not walked on a miss.
Environment_get_local(h, e, key) ==
  IF key \in DOMAIN h[e].values
  THEN [ok |-> TRUE, v |-> h[e].values[key]]
  ELSE [ok |-> FALSE, v |-> Nil]

\* Environment::get on frame e of heap h
RECURSIVE Environment_get(_, _, _)
Environment_get(h, e, key) ==
  IF key \in DOMAIN h[e].values
  THEN [ok |-> TRUE, v |-> h[e].values[key]]
  ELSE IF h[e].enclosing # 0
       THEN Environment_get(h, h[e].enclosing, key)
       ELSE [ok |-> FALSE, v |-> Nil]

\* A plausible bug: the binding is written into the innermost frame without
\* the contains_key test, so an unbound name is created there.
Environment_assign_create(h, e, key, v) ==
  [ok |-> TRUE, h |-> [h EXCEPT ![e].values = MapInsert(@, key, v)]]

\* Environment::assign on frame e of heap h
RECURSIVE Environment_assign(_, _, _, _)
Environment_assign(h, e, key, v) ==
  IF key \in DOMAIN h[e].values
  THEN [ok |-> TRUE, h |-> [h EXCEPT ![e].values = MapInsert(@, key, v)]]
  ELSE IF h[e].enclosing # 0
       THEN Environment_assign(h, h[e].enclosing, key, v)
       ELSE [ok |-> FALSE, h |-> h]

\* A plausible bug: an existing binding is kept (entry().or_insert()).
Environment_define_keep(h, e, name, v) ==
  IF name \in DOMAIN h[e].values THEN h
  ELSE [h EXCEPT ![e].values = MapInsert(@, name, v)]

\* Environment::define on frame e of heap h
Environment_define(h, e, name, v) ==
  [h EXCEPT ![e].values = MapInsert(@, name, v)]

\* `distance - 1` on a usize: a debug build panics on overflow, a release
\* build wraps.
UsizeDecrement(d, b) ==
  IF d = 0 /\ b = "debug" THEN [ok |-> FALSE, d |-> 0] ELSE [ok |-> TRUE, d |-> d - 1]

\* Environment::get_at on frame e of heap h.  `seen` is the set of frames on
\* which get_at was entered (each is borrowed); kind "panic" is the
\* subtraction overflow or unreachable!().
RECURSIVE Environment_get_at(_, _, _, _, _)
Environment_get_at(h, e, distance, name, b) ==
  IF distance = 0 /\ name \in DOMAIN h[e].values
  THEN [kind |-> "ok", v |-> h[e].values[name], seen |-> {e}]
  ELSE IF h[e].enclosing # 0
       THEN LET d == UsizeDecrement(distance, b) IN
            IF ~d.ok THEN [kind |-> "panic", v |-> Nil, seen |-> {e}]
            ELSE LET r == Environment_get_at(h, h[e].enclosing, d.d, name, b) IN
                 [r EXCEPT !.seen = @ \cup {e}]
       ELSE [kind |-> "panic", v |-> Nil, seen |-> {e}]

\* Environment::assign_at on frame e of heap h
RECURSIVE Environment_assign_at(_, _, _, _, _, _)
Environment_assign_at(h, e, distance, name, v, b) ==
  IF distance = 0
  THEN [kind |-> "ok", h |-> [h EXCEPT ![e].values = MapInsert(@, name, v)], seen |-> {e}]
  ELSE IF h[e].enclosing # 0
       THEN LET d == UsizeDecrement(distance, b) IN
            IF ~d.ok THEN [kind |-> "panic", h |-> h, seen |-> {e}]
            ELSE LET r == Environment_assign_at(h, h[e].enclosing, d.d, name, v, b) IN
                 [r EXCEPT !.seen = @ \cup {e}]
       ELSE [kind |-> "panic", h |-> h, seen |-> {e}]

--------------------------------------------------------------------------
(* The machine SpecEnv: a client that builds frames and calls the methods  *)
(* of Environment on them, as the unit tests of environment.rs do.         *)

EnvNames == {<<"a">>, <<"b">>}
EnvValues == {Number(1), Number(2)}
EnvDistances == 0..MaxFrames

\* The variables of the machine Spec, at rest
LoxIdle ==
  /\ pc = "prompt"
  /\ runs = 0
  /\ input = <<>>
  /\ toks = <<>>
  /\ stmts = <<>>
  /\ todo = <<>>
  /\ interp = <<>>
  /\ stderr = <<>>
  /\ result = "none"
  /\ before = <<>>
  /\ executed = 0

NoOp == [op |-> "none", env |-> 0, name |-> <<>>, val |-> Nil, dist |-> 0,
         kind |-> "ok", v |-> Nil, seen |-> {}]

InitEnv ==
  /\ build \in Builds
  /\ heap = <<Environment_new>>
  /\ last = NoOp
  /\ LoxIdle

Alive == last.kind # "panic"

NewWithEnclosing ==
  \E p \in 1..Len(heap) :
    /\ Alive
    /\ Len(heap) < MaxFrames
    /\ heap' = Append(heap, Environment_new_with_enclosing(p))
    /\ last' = [NoOp EXCEPT !.op = "new", !.env = p]
    /\ UNCHANGED <<build, loxVars>>

Define ==
  \E e \in 1..Len(heap), name \in EnvNames, v \in EnvValues :
    /\ Alive
    /\ heap' = Environment_define(heap, e, name, v)
    /\ last' = [NoOp EXCEPT !.op = "define", !.env = e, !.name = name, !.val = v]
    /\ UNCHANGED <<build, loxVars>>

Get ==
  \E e \in 1..Len(heap), name \in EnvNames :
    LET r == Environment_get(heap, e, name) IN
    /\ Alive
    /\ last' = [NoOp EXCEPT !.op = "get", !.env = e, !.name = name,
                            !.kind = IF r.ok THEN "ok" ELSE "err", !.v = r.v]
    /\ UNCHANGED <<build, heap, loxVars>>

Assign ==
  \E e \in 1..Len(heap), name \in EnvNames, v \in EnvValues :
    LET r == Environment_assign(heap, e, name, v) IN
    /\ Alive
    /\ heap' = r.h
    /\ last' = [NoOp EXCEPT !.op = "assign", !.env = e, !.name = name, !.val = v,
                            !.kind = IF r.ok THEN "ok" ELSE "err"]
    /\ UNCHANGED <<build, loxVars>>

GetAt ==
  \E e \in 1..Len(heap), d \in EnvDistances, name \in EnvNames :
    LET r == Environment_get_at(heap, e, d, name, build) IN
    /\ Alive
    /\ last' = [NoOp EXCEPT !.op = "get_at", !.env = e, !.name = name, !.dist = d,
                            !.kind = r.kind, !.v = r.v, !.seen = r.seen]
    /\ UNCHANGED <<build, heap, loxVars>>

AssignAt ==
  \E e \in 1..Len(heap), d \in EnvDistances, name \in EnvNames, v \in EnvValues :
    LET r == Environment_assign_at(heap, e, d, name, v, build) IN
    /\ Alive
    /\ heap' = r.h
    /\ last' = [NoOp EXCEPT !.op = "assign_at", !.env = e, !.name = name, !.val = v,
                            !.dist = d, !.kind = r.kind, !.seen = r.seen]
    /\ UNCHANGED <<build, loxVars>>

NextEnv ==
  \/ NewWithEnclosing
  \/ Define
  \/ Get
  \/ Assign
  \/ GetAt
  \/ AssignAt

SpecEnv == InitEnv /\ [][NextEnv]_vars

--------------------------------------------------------------------------
(* Scanner (scanner.rs).  The scanner state sc is the struct Scanner;      *)
(* `current` and `start` are the 0-based indices of the code, so the       *)
(* character at index i is sc.source[i + 1].                               *)

Digits == {"0", "1", "2", "3", "4", "5", "6", "7", "8", "9"}

Letters ==
  {"a", "b", "c", "d", "e", "f", "g", "h", "i", "j", "k", "l", "m",
   "n", "o", "p", "q", "r", "s", "t", "u", "v", "w", "x", "y", "z",
   "A", "B", "C", "D", "E", "F", "G", "H", "I", "J", "K", "L", "M",
   "N", "O", "P", "Q", "R", "S", "T", "U", "V", "W", "X", "Y", "Z"}

\* Option::None of a char or of a Literal
NoChar == ""
NoLiteral == [t |-> "none", n |-> 0, s |-> <<>>]

\* CheckCharacter::is_valid_for_lox_identifier
is_valid_for_lox_identifier(c) == c \in Letters \cup Digits \cup {"_"}

\* MatchIdentifier::match_lox_keyword
match_lox_keyword(text) ==
  CASE text = <<"a", "n", "d">> -> "And"
    [] text = <<"c", "l", "a", "s", "s">> -> "Class"
    [] text = <<"e", "l", "s", "e">> -> "Else"
    [] text = <<"f", "a", "l", "s", "e">> -> "False"
    [] text = <<"f", "o", "r">> -> "For"
    [] text = <<"f", "u", "n">> -> "Fun"
    [] text = <<"i", "f">> -> "If"
    [] text = <<"n", "i", "l">> -> "Nil"
    [] text = <<"o", "r">> -> "Or"
    [] text = <<"p", "r", "i", "n", "t">> -> "Print"
    [] text = <<"r", "e", "t", "u", "r", "n">> -> "Return"
    [] text = <<"s", "u", "p", "e", "r">> -> "Super"
    [] text = <<"t", "h", "i", "s">> -> "This"
    [] text = <<"t", "r", "u", "e">> -> "True"
    [] text = <<"v", "a", "r">> -> "Var"
    [] text = <<"w", "h", "i", "l", "e">> -> "While"
    [] text = <<"b", "r", "e", "a", "k">> -> "Break"
    [] OTHER -> "Identifier"

\* Token::new
Token_new(type, lexeme, literal, line) ==
  [type |-> type, lexeme |-> lexeme, literal |-> literal, line |-> line]

\* Token::new_eof
Token_new_eof(line) == Token_new("Eof", <<>>, NoLiteral, line)

\* Scanner::new
Scanner_new(source) ==
  [source |-> source, tokens |-> <<>>, start |-> 0, current |-> 0, line |-> 1]

\* Scanner::is_at_end
Scanner_is_at_end(sc) == sc.current >= Len(sc.source)

\* Scanner::peek
Scanner_peek(sc) ==
  IF sc.current < Len(sc.source) THEN sc.source[sc.current + 1] ELSE NoChar

\* Scanner::peek_next
Scanner_peek_next(sc) ==
  IF sc.current + 1 < Len(sc.source) THEN sc.source[sc.current + 2] ELSE NoChar

\* Scanner::advance (the scanner after the call; the character returned is
\* the one Scanner_peek gave before it)
Scanner_advance(sc) == [sc EXCEPT !.current = @ + 1]

\* self.source.get(self.start..self.current) collected into a String
Scanner_text(sc) == SubSeq(sc.source, sc.start + 1, sc.current)

\* Scanner::add_token_and_literal
Scanner_add_token_and_literal(sc, type, literal) ==
  [sc EXCEPT !.tokens = Append(@, Token_new(type, Scanner_text(sc), literal, sc.line))]

\* Scanner::add_token
Scanner_add_token(sc, type) == Scanner_add_token_and_literal(sc, type, NoLiteral)

\* Scanner::is_match followed by the add_token of a one- or two-character
\* operator
Scanner_operator(sc, expected, two, one) ==
  IF Scanner_peek(sc) = expected
  THEN Scanner_add_token(Scanner_advance(sc), two)
  ELSE Scanner_add_token(sc, one)

\* The while loops of Scanner::identifier and Scanner::number: advance while
\* the next character is in cs.
RECURSIVE Scanner_skip_while(_, _)
Scanner_skip_while(sc, cs) ==
  IF Scanner_peek(sc) \in cs THEN Scanner_skip_while(Scanner_advance(sc), cs) ELSE sc

\* Scanner::identifier
Scanner_identifier(sc) ==
  LET s1 == Scanner_skip_while(sc, Letters \cup Digits \cup {"_"}) IN
  Scanner_add_token(s1, match_lox_keyword(Scanner_text(s1)))

\* The value of a decimal digit
DigitValue(c) ==
  CASE c = "0" -> 0 [] c = "1" -> 1 [] c = "2" -> 2 [] c = "3" -> 3 [] c = "4" -> 4
    [] c = "5" -> 5 [] c = "6" -> 6 [] c = "7" -> 7 [] c = "8" -> 8 [] c = "9" -> 9

\* str::parse::<f64> on the lexeme of a number: the integer part is the
\* number n of the value, the fraction digits (without trailing zeros) are
\* kept in s.
RECURSIVE ParseInteger(_)
ParseInteger(cs) ==
  IF cs = <<>> THEN 0
  ELSE 10 * ParseInteger(SubSeq(cs, 1, Len(cs) - 1)) + DigitValue(cs[Len(cs)])

RECURSIVE StripZeros(_)
StripZeros(cs) ==
  IF cs # <<>> /\ cs[Len(cs)] = "0" THEN StripZeros(SubSeq(cs, 1, Len(cs) - 1)) ELSE cs

ParseNumber(cs) ==
  LET dots == {i \in 1..Len(cs) : cs[i] = "."} IN
  IF dots = {} THEN Number(ParseInteger(cs))
  ELSE LET d == CHOOSE i \in dots : TRUE IN
       [t |-> "num", n |-> ParseInteger(SubSeq(cs, 1, d - 1)),
        s |-> StripZeros(SubSeq(cs, d + 1, Len(cs)))]

\* Scanner::number
Scanner_number(sc) ==
  LET s1 == Scanner_skip_while(sc, Digits)
      s2 == IF Scanner_peek(s1) = "." /\ Scanner_peek_next(s1) \in Digits
            THEN Scanner_skip_while(Scanner_advance(s1), Digits)
            ELSE s1
  IN Scanner_add_token_and_literal(s2, "Number", ParseNumber(Scanner_text(s2)))

\* The while loop of Scanner::string: up to the closing quote or the end
RECURSIVE Scanner_string_loop(_)
Scanner_string_loop(sc) ==
  LET c == Scanner_peek(sc) IN
  IF c = NoChar \/ c = "\"" THEN sc
  ELSE Scanner_string_loop(
         Scanner_advance(IF c = "\n" THEN [sc EXCEPT !.line = @ + 1] ELSE sc))

\* Scanner::string
Scanner_string(sc) ==
  LET s1 == Scanner_string_loop(sc) IN
  IF Scanner_is_at_end(s1)
  THEN [ok |-> FALSE, sc |-> s1, msg |-> "Unterminated string."]
  ELSE LET s2 == Scanner_advance(s1) IN
       [ok |-> TRUE,
        sc |-> Scanner_add_token_and_literal(
                 s2, "String", String(SubSeq(s2.source, s2.start + 2, s2.current - 1))),
        msg |-> ""]

\* The loop of Scanner::comment, after the '*' was consumed
RECURSIVE Scanner_comment_loop(_, _)
Scanner_comment_loop(sc, counter) ==
  LET c == Scanner_peek(sc)
      s1 == Scanner_advance(sc)
  IN
  IF counter = 0 THEN [ok |-> TRUE, sc |-> sc, msg |-> ""]
  ELSE CASE c = "/" ->
              IF Scanner_peek(s1) = "*"
              THEN Scanner_comment_loop(Scanner_advance(s1), counter + 1)
              ELSE Scanner_comment_loop(s1, counter)
         [] c = "*" ->
              IF Scanner_peek(s1) = "/"
              THEN Scanner_comment_loop(Scanner_advance(s1), counter - 1)
              ELSE Scanner_comment_loop(s1, counter)
         [] c = "\n" -> Scanner_comment_loop([s1 EXCEPT !.line = @ + 1], counter)
         [] c = NoChar -> [ok |-> FALSE, sc |-> sc, msg |-> "Unterminated block comment."]
         [] OTHER -> Scanner_comment_loop(s1, counter)

\* Scanner::comment.  The opening "/*" was consumed by scan_token; the
\* first statement of comment, self.advance(), consumes one more character
\* and reaches unreachable!() at the end of the source.
Scanner_comment(sc) ==
  IF Scanner_is_at_end(sc)
  THEN [ok |-> FALSE, sc |-> sc, msg |-> "panic"]
  ELSE Scanner_comment_loop(Scanner_advance(sc), 1)

\* The loop of the "//" arm of Scanner::scan_token: up to the end of the line
RECURSIVE Scanner_line_comment(_)
Scanner_line_comment(sc) ==
  IF Scanner_peek(sc) \in {NoChar, "\n"} THEN sc
  ELSE Scanner_line_comment(Scanner_advance(sc))

\* Scanner::scan_token
Scanner_scan_token(sc) ==
  LET c == Scanner_peek(sc)
      s1 == Scanner_advance(sc)
      Ok(s) == [ok |-> TRUE, sc |-> s, msg |-> ""]
  IN
  CASE c = "(" -> Ok(Scanner_add_token(s1, "LeftBracket"))
    [] c = ")" -> Ok(Scanner_add_token(s1, "RightBracket"))
    [] c = "{" -> Ok(Scanner_add_token(s1, "LeftBrace"))
    [] c = "}" -> Ok(Scanner_add_token(s1, "RightBrace"))
    [] c = "," -> Ok(Scanner_add_token(s1, "Comma"))
    [] c = "." -> Ok(Scanner_add_token(s1, "Dot"))
    [] c = "+" -> Ok(Scanner_add_token(s1, "Plus"))
    [] c = "-" -> Ok(Scanner_add_token(s1, "Minus"))
    [] c = "*" -> Ok(Scanner_add_token(s1, "Star"))
    [] c = ";" -> Ok(Scanner_add_token(s1, "Semicolon"))
    [] c = "!" -> Ok(Scanner_operator(s1, "=", "BangEqual", "Bang"))
    [] c = "=" -> Ok(Scanner_operator(s1, "=", "EqualEqual", "Assign"))
    [] c = "<" -> Ok(Scanner_operator(s1, "=", "LessEqual", "Less"))
    [] c = ">" -> Ok(Scanner_operator(s1, "=", "GreaterEqual", "Greater"))
    [] c = "/" ->
         IF Scanner_peek(s1) = "/"
         THEN Ok(Scanner_line_comment(Scanner_advance(s1)))
         ELSE IF Scanner_peek(s1) = "*"
              THEN Scanner_comment(Scanner_advance(s1))
              ELSE Ok(Scanner_add_token(s1, "Slash"))
    [] c \in {" ", "\r", "\t"} -> Ok(s1)
    [] c = "\n" -> Ok([s1 EXCEPT !.line = @ + 1])
    [] c = "\"" -> Scanner_string(s1)
    [] c \in Digits -> Ok(Scanner_number(s1))
    [] is_valid_for_lox_identifier(c) -> Ok(Scanner_identifier(s1))
    [] OTHER -> [ok |-> FALSE, sc |-> s1, msg |-> "Unexpected character."]

\* One turn of the while loop of Scanner::scan_tokens, on the result r of
\* the turns before it: nothing after an error or at the end of the source
Scanner_turn(r) ==
  IF ~r.ok \/ Scanner_is_at_end(r.sc) THEN r
  ELSE Scanner_scan_token([r.sc EXCEPT !.start = r.sc.current])

\* n turns of the loop, the first half and then the second half
RECURSIVE Scanner_turns(_, _)
Scanner_turns(r, n) ==
  IF n = 0 THEN r
  ELSE IF n = 1 THEN Scanner_turn(r)
  ELSE CHOOSE done \in {Scanner_turns(half, n - (n \div 2)) :
                            half \in {Scanner_turns(r, n \div 2)}} : TRUE

\* Scanner::scan_tokens: the tokens and the EOF token, or the first lexical
\* error (reported through LoxError::general_error).  A turn of the loop
\* consumes a character at least, so the loop makes no more turns than the
\* source has characters.
Scanner_scan_tokens(sc) ==
  LET r == Scanner_turns([ok |-> TRUE, sc |-> sc, msg |-> ""], Len(sc.source)) IN
  IF r.ok
  THEN [ok |-> TRUE, tokens |-> Append(r.sc.tokens, Token_new_eof(r.sc.line)), msg |-> "",
        line |-> r.sc.line]
  ELSE [ok |-> FALSE, tokens |-> <<>>, msg |-> r.msg, line |-> r.sc.line]


--------------------------------------------------------------------------
(* Syntax trees (expr.rs, stmt.rs).  A node is a record tagged by k.  The  *)
(* interpreter keys its side table of distances by the identity of the     *)
(* Rc<Expr> of a Variable, Assign, This or Super node; the identity of a   *)
(* node is id = <<run, index of its token>>, unique for every node the     *)
(* parser allocates in the run-th call of Lox::run.                        *)

NoNode == [k |-> "None"]

AssignExpr(id, name, value) == [k |-> "Assign", id |-> id, name |-> name, value |-> value]
BinaryExpr(left, operator, right) ==
  [k |-> "Binary", left |-> left, operator |-> operator, right |-> right]
CallExpr(callee, bracket, arguments) ==
  [k |-> "Call", callee |-> callee, bracket |-> bracket, arguments |-> arguments]
GetExpr(object, name) == [k |-> "Get", object |-> object, name |-> name]
GroupingExpr(expression) == [k |-> "Grouping", expression |-> expression]
LiteralExpr(value) == [k |-> "Literal", value |-> value]
LogicalExpr(left, operator, right) ==
  [k |-> "Logical", left |-> left, operator |-> operator, right |-> right]
SetExpr(object, name, value) ==
  [k |-> "Set", object |-> object, name |-> name, value |-> value]
SuperExpr(id, keyword, method) ==
  [k |-> "Super", id |-> id, keyword |-> keyword, method |-> method]
ThisExpr(id, keyword) == [k |-> "This", id |-> id, keyword |-> keyword]
UnaryExpr(operator, right) == [k |-> "Unary", operator |-> operator, right |-> right]
VariableExpr(id, name) == [k |-> "Variable", id |-> id, name |-> name]

BlockStmt(statements) == [k |-> "Block", statements |-> statements]
BreakStmt(token) == [k |-> "Break", token |-> token]
ClassStmt(name, superclass, methods) ==
  [k |-> "Class", name |-> name, superclass |-> superclass, methods |-> methods]
ExpressionStmt(expression) == [k |-> "Expression", expression |-> expression]
FunctionStmt(name, params, body) ==
  [k |-> "Function", name |-> name, params |-> params, body |-> body]
IfStmt(condition, then_branch, else_branch) ==
  [k |-> "If", condition |-> condition, then_branch |-> then_branch,
   else_branch |-> else_branch]
PrintStmt(expression) == [k |-> "Print", expression |-> expression]
ReturnStmt(keyword, value) == [k |-> "Return", keyword |-> keyword, value |-> value]
VarStmt(name, initialiser) == [k |-> "Var", name |-> name, initialiser |-> initialiser]
WhileStmt(condition, body) == [k |-> "While", condition |-> condition, body |-> body]

--------------------------------------------------------------------------
(* Parser (parser.rs).  The parser state ps is the struct Parser, with the *)
(* number of the run (for node identities) and errs, the lines that        *)
(* LoxError::parse_error wrote to stderr, syncs, the history of the calls  *)
(* of synchronise, targets, the history of the invalid assignment targets, *)
(* and trace, the history of the top-level declarations begun, the loop    *)
(* bodies entered and left and the break statements met.  A parsing method *)
(* returns [ok, node, ps]: Ok(node) or Err, and the parser after the call. *)

\* let x = e in body: the operand is bound once
Let(e, Body(_)) == Body(e)

\* The limit on parameters and arguments
MaxArguments == 255

\* LoxError::parse_error and LoxError::general_error: report() writes the
\* line to stderr when the error is constructed
Report(errs, msg, line) == Append(errs, [msg |-> msg, line |-> line])

\* Parser::new
Parser_new(tokens, run) ==
  [tokens |-> tokens, current |-> 0, loop_depth |-> 0, had_error |-> FALSE,
   errs |-> <<>>, run |-> run, syncs |-> <<>>, targets |-> <<>>, trace |-> <<>>]

\* The history of the parser: ps with event added to its trace
Traced(ps, event) == [ps EXCEPT !.trace = Append(@, event)]

\* The parser on entering and on leaving the body of a loop, for the history
EnterBody(ps) == Traced(ps, [ev |-> "enter", depth |-> ps.loop_depth])
LeaveBody(ps) == Traced(ps, [ev |-> "leave", depth |-> ps.loop_depth])

\* Parser::peek
Parser_peek(ps) == ps.tokens[ps.current + 1]

\* Parser::previous
Parser_previous(ps) == ps.tokens[ps.current]

\* Parser::is_at_end
Parser_is_at_end(ps) == Parser_peek(ps).type = "Eof"

\* Parser::check
Parser_check(ps, type) == ~Parser_is_at_end(ps) /\ Parser_peek(ps).type = type

\* Parser::advance (the parser after the call; the token returned is
\* Parser_previous of it)
Parser_advance(ps) ==
  IF ~Parser_is_at_end(ps) THEN [ps EXCEPT !.current = @ + 1] ELSE ps

\* The condition of Parser::is_match: one of the types matches the next token
Parser_is_match(ps, types) == \E type \in types : Parser_check(ps, type)

POk(ps, node) == [ok |-> TRUE, node |-> node, ps |-> ps]

\* Err(LoxError::parse_error(token, message))
PErr(ps, token, message) ==
  [ok |-> FALSE, node |-> NoNode,
   ps |-> [ps EXCEPT !.errs = Report(@, message, token.line)]]

\* Parser::consume: the node of the result is the token consumed
Parser_consume(ps, type, message) ==
  IF Parser_check(ps, type)
  THEN Let(Parser_advance(ps), LAMBDA p1 :  POk(p1, Parser_previous(p1)))
  ELSE PErr(ps, Parser_peek(ps), message)

\* The loop of Parser::synchronise, after its first advance
RECURSIVE Parser_synchronise_loop(_)
Parser_synchronise_loop(ps) ==
  IF Parser_is_at_end(ps) THEN ps
  ELSE IF Parser_previous(ps).type = "Semicolon" THEN ps
  ELSE IF Parser_peek(ps).type \in
            {"Class", "Fun", "Var", "For", "If", "While", "Print", "Return"}
       THEN ps
  ELSE Parser_synchronise_loop(Parser_advance(ps))

\* Parser::synchronise
Parser_synchronise(ps) == Parser_synchronise_loop(Parser_advance(ps))

\* The methods of the parser call each other through Parser_rule: the
\* call self.m() of the code is Parser_rule("m", ps)
RECURSIVE Parser_rule(_, _)

\* Parser::expression
Parser_expression(ps) == Parser_rule("assignment", ps)

\* Parser::primary
Parser_primary(ps) ==
  Let(Parser_advance(ps), LAMBDA p1 :
      Let(<<ps.run, p1.current>>, LAMBDA id :
  CASE Parser_check(ps, "False") -> POk(p1, LiteralExpr(Boolean(FALSE)))
    [] Parser_check(ps, "True") -> POk(p1, LiteralExpr(Boolean(TRUE)))
    [] Parser_check(ps, "Nil") -> POk(p1, LiteralExpr(Nil))
    [] Parser_is_match(ps, {"Number", "String"}) ->
         POk(p1, LiteralExpr(Parser_previous(p1).literal))
    [] Parser_check(ps, "Super") ->
         Let(Parser_consume(p1, "Dot", "Expect '.' after 'super'."), LAMBDA dot :
         IF ~dot.ok THEN dot
         ELSE Let(Parser_consume(dot.ps, "Identifier",
                                            "Expect superclass method name."), LAMBDA method :
              IF ~method.ok THEN method
              ELSE POk(method.ps, SuperExpr(id, Parser_previous(p1), method.node))))
    [] Parser_check(ps, "This") -> POk(p1, ThisExpr(id, Parser_previous(p1)))
    [] Parser_check(ps, "Identifier") -> POk(p1, VariableExpr(id, Parser_previous(p1)))
    [] Parser_check(ps, "LeftBracket") ->
         Let(Parser_expression(p1), LAMBDA expr :
         IF ~expr.ok THEN expr
         ELSE Let(Parser_consume(expr.ps, "RightBracket",
                                           "Expect ')' after expression."), LAMBDA close :
              IF ~close.ok THEN close
              ELSE POk(close.ps, GroupingExpr(expr.node))))
    [] OTHER -> PErr(ps, Parser_peek(ps), "Expect expression.")))

\* One turn of the while loop of Parser::finish_call, after the first
\* argument; s.more is false once the loop has been left
Parser_arguments_turn(s) ==
  IF ~s.more THEN s
  ELSE IF ~Parser_check(s.res.ps, "Comma") THEN [s EXCEPT !.more = FALSE]
  ELSE Let(Parser_advance(s.res.ps), LAMBDA p1 :
       IF Len(s.res.node) >= MaxArguments
       THEN [res |-> PErr([p1 EXCEPT !.had_error = TRUE], Parser_peek(p1),
                          "Can't have more than 255 arguments."),
             more |-> FALSE]
       ELSE Let(Parser_expression(p1), LAMBDA a :
            IF ~a.ok THEN [res |-> a, more |-> FALSE]
            ELSE [res |-> POk(a.ps, Append(s.res.node, a.node)), more |-> TRUE]))

\* n turns of that loop, the first half of them evaluated before the second
RECURSIVE Parser_arguments_turns(_, _)
Parser_arguments_turns(s, n) ==
  IF n = 0 \/ ~s.more THEN s
  ELSE IF n = 1 THEN Parser_arguments_turn(s)
  ELSE CHOOSE done \in {Parser_arguments_turns(half, n - (n \div 2)) :
                            half \in {Parser_arguments_turns(s, n \div 2)}} : TRUE

\* The while loop of Parser::finish_call, after the first argument: every
\* turn takes a comma, so the tokens left bound the turns
Parser_arguments_loop(ps, arguments) ==
  Parser_arguments_turns([res |-> POk(ps, arguments), more |-> TRUE],
                         Len(ps.tokens) - ps.current).res

\* Parser::finish_call
Parser_finish_call(ps, callee) ==
  Let(IF Parser_check(ps, "RightBracket") THEN POk(ps, <<>>)
              ELSE Let(Parser_expression(ps), LAMBDA a :
                   IF ~a.ok THEN a
                   ELSE Parser_arguments_loop(a.ps, <<a.node>>)), LAMBDA args :
  IF ~args.ok THEN args
  ELSE Let(Parser_consume(args.ps, "RightBracket",
                                      "Expect ')' after arguments."), LAMBDA bracket :
       IF ~bracket.ok THEN bracket
       ELSE POk(bracket.ps, CallExpr(callee, bracket.node, args.node))))

\* The loop of Parser::call
RECURSIVE Parser_call_loop(_, _)
Parser_call_loop(ps, expr) ==
  IF Parser_check(ps, "LeftBracket")
  THEN Let(Parser_finish_call(Parser_advance(ps), expr), LAMBDA c :
       IF ~c.ok THEN c ELSE Parser_call_loop(c.ps, c.node))
  ELSE IF Parser_check(ps, "Dot")
  THEN Let(Parser_consume(Parser_advance(ps), "Identifier",
                                   "Expect property name after '.'."), LAMBDA name :
       IF ~name.ok THEN name
       ELSE Parser_call_loop(name.ps, GetExpr(expr, name.node)))
  ELSE POk(ps, expr)

\* Parser::call
Parser_call(ps) ==
  Let(Parser_rule("primary", ps), LAMBDA expr :
  IF ~expr.ok THEN expr ELSE Parser_call_loop(expr.ps, expr.node))

\* Parser::unary
Parser_unary(ps) ==
  IF Parser_is_match(ps, {"Bang", "Minus"})
  THEN Let(Parser_advance(ps), LAMBDA p1 :
           Let(Parser_rule("unary", p1), LAMBDA right :
        IF ~right.ok THEN right
          ELSE POk(right.ps, UnaryExpr(Parser_previous(p1), right.node))))
  ELSE Parser_rule("call", ps)

\* The while loop of Parser::factor: the right operand is a unary
RECURSIVE Parser_factor_loop(_, _)
Parser_factor_loop(ps, expr) ==
  IF ~Parser_is_match(ps, {"Slash", "Star"}) THEN POk(ps, expr)
  ELSE Let(Parser_advance(ps), LAMBDA p1 :
           Let(Parser_rule("unary", p1), LAMBDA right :
        IF ~right.ok THEN right
          ELSE Parser_factor_loop(right.ps,
                                  BinaryExpr(expr, Parser_previous(p1), right.node))))

\* Parser::factor
Parser_factor(ps) ==
  Let(Parser_rule("unary", ps), LAMBDA expr :
  IF ~expr.ok THEN expr ELSE Parser_factor_loop(expr.ps, expr.node))

\* The while loop of Parser::term: the right operand is self.term()
RECURSIVE Parser_term_loop(_, _)
Parser_term_loop(ps, expr) ==
  IF ~Parser_is_match(ps, {"Minus", "Plus"}) THEN POk(ps, expr)
  ELSE Let(Parser_advance(ps), LAMBDA p1 :
           Let(Parser_rule("term", p1), LAMBDA right :
        IF ~right.ok THEN right
          ELSE Parser_term_loop(right.ps,
                                BinaryExpr(expr, Parser_previous(p1), right.node))))

\* Parser::term
Parser_term(ps) ==
  Let(Parser_rule("factor", ps), LAMBDA expr :
  IF ~expr.ok THEN expr ELSE Parser_term_loop(expr.ps, expr.node))

\* The while loop of Parser::comparison
RECURSIVE Parser_comparison_loop(_, _)
Parser_comparison_loop(ps, expr) ==
  IF ~Parser_is_match(ps, {"Greater", "GreaterEqual", "Less", "LessEqual"})
  THEN POk(ps, expr)
  ELSE Let(Parser_advance(ps), LAMBDA p1 :
           Let(Parser_rule("term", p1), LAMBDA right :
        IF ~right.ok THEN right
          ELSE Parser_comparison_loop(right.ps,
                                      BinaryExpr(expr, Parser_previous(p1), right.node))))

\* Parser::comparison
Parser_comparison(ps) ==
  Let(Parser_rule("term", ps), LAMBDA expr :
  IF ~expr.ok THEN expr ELSE Parser_comparison_loop(expr.ps, expr.node))

\* The while loop of Parser::equality
RECURSIVE Parser_equality_loop(_, _)
Parser_equality_loop(ps, expr) ==
  IF ~Parser_is_match(ps, {"BangEqual", "EqualEqual"}) THEN POk(ps, expr)
  ELSE Let(Parser_advance(ps), LAMBDA p1 :
           Let(Parser_rule("comparison", p1), LAMBDA right :
        IF ~right.ok THEN right
          ELSE Parser_equality_loop(right.ps,
                                    BinaryExpr(expr, Parser_previous(p1), right.node))))

\* Parser::equality
Parser_equality(ps) ==
  Let(Parser_rule("comparison", ps), LAMBDA expr :
  IF ~expr.ok THEN expr ELSE Parser_equality_loop(expr.ps, expr.node))

\* The while loop of Parser::and
RECURSIVE Parser_and_loop(_, _)
Parser_and_loop(ps, expr) ==
  IF ~Parser_check(ps, "And") THEN POk(ps, expr)
  ELSE Let(Parser_advance(ps), LAMBDA p1 :
           Let(Parser_rule("equality", p1), LAMBDA right :
        IF ~right.ok THEN right
          ELSE Parser_and_loop(right.ps,
                               LogicalExpr(expr, Parser_previous(p1), right.node))))

\* Parser::and
Parser_and(ps) ==
  Let(Parser_rule("equality", ps), LAMBDA expr :
  IF ~expr.ok THEN expr ELSE Parser_and_loop(expr.ps, expr.node))

\* The while loop of Parser::or
RECURSIVE Parser_or_loop(_, _)
Parser_or_loop(ps, expr) ==
  IF ~Parser_check(ps, "Or") THEN POk(ps, expr)
  ELSE Let(Parser_advance(ps), LAMBDA p1 :
           Let(Parser_rule("and", p1), LAMBDA right :
        IF ~right.ok THEN right
          ELSE Parser_or_loop(right.ps,
                              LogicalExpr(expr, Parser_previous(p1), right.node))))

\* Parser::or
Parser_or(ps) ==
  Let(Parser_rule("and", ps), LAMBDA expr :
  IF ~expr.ok THEN expr ELSE Parser_or_loop(expr.ps, expr.node))

\* The parser after the report of an invalid assignment target at the
\* token equals, for the left-hand side node
InvalidTarget(ps, equals, node) ==
  [ps EXCEPT !.had_error = TRUE,
             !.errs = Report(@, "Invalid assignment target.", equals.line),
             !.targets = Append(@, [errs |-> Len(ps.errs) + 1, equals |-> equals,
                                    node |-> node, current |-> ps.current])]

\* A Parser::assignment that returns the error of an invalid target
Parser_assignment_fatal(ps) ==
  Let(Parser_rule("or", ps), LAMBDA expr :
  IF ~expr.ok THEN expr
  ELSE IF ~Parser_check(expr.ps, "Assign") THEN expr
  ELSE Let(Parser_advance(expr.ps), LAMBDA p1 :
           Let(Parser_previous(p1), LAMBDA equals :
           Let(Parser_rule("assignment", p1), LAMBDA value :
       IF ~value.ok THEN value
       ELSE IF expr.node.k = "Variable"
       THEN POk(value.ps, AssignExpr(<<ps.run, p1.current>>, expr.node.name, value.node))
       ELSE IF expr.node.k = "Get"
       THEN POk(value.ps, SetExpr(expr.node.object, expr.node.name, value.node))
       ELSE [ok |-> FALSE, node |-> NoNode,
             ps |-> InvalidTarget(value.ps, equals, expr.node)]))))

\* Parser::assignment.  An invalid target is reported, sets had_error and
\* the left-hand side is returned as the expression.
Parser_assignment(ps) ==
  Let(Parser_rule("or", ps), LAMBDA expr :
  IF ~expr.ok THEN expr
  ELSE IF ~Parser_check(expr.ps, "Assign") THEN expr
  ELSE Let(Parser_advance(expr.ps), LAMBDA p1 :
           Let(Parser_previous(p1), LAMBDA equals :
           Let(Parser_rule("assignment", p1), LAMBDA value :
       IF ~value.ok THEN value
       ELSE IF expr.node.k = "Variable"
       THEN POk(value.ps, AssignExpr(<<ps.run, p1.current>>, expr.node.name, value.node))
       ELSE IF expr.node.k = "Get"
       THEN POk(value.ps, SetExpr(expr.node.object, expr.node.name, value.node))
       ELSE POk(InvalidTarget(value.ps, equals, expr.node), expr.node)))))

\* The while loop of Parser::block
RECURSIVE Parser_block_loop(_, _)
Parser_block_loop(ps, statements) ==
  IF Parser_check(ps, "RightBrace") \/ Parser_is_at_end(ps) THEN POk(ps, statements)
  ELSE Let(Parser_rule("declaration", ps), LAMBDA d :
       IF ~d.ok THEN d ELSE Parser_block_loop(d.ps, Append(statements, d.node)))

\* Parser::block: the node of the result is the sequence of statements
Parser_block(ps) ==
  Let(Parser_block_loop(ps, <<>>), LAMBDA body :
  IF ~body.ok THEN body
  ELSE Let(Parser_consume(body.ps, "RightBrace", "Expect '}' after block."), LAMBDA close :
       IF ~close.ok THEN close ELSE POk(close.ps, body.node)))

\* The while loop of Parser::function over the parameters after the first
RECURSIVE Parser_params_loop(_, _)
Parser_params_loop(ps, params) ==
  IF ~Parser_check(ps, "Comma") THEN POk(ps, params)
  ELSE Let(Parser_advance(ps), LAMBDA p1 :
           Let(IF Len(params) >= MaxArguments
                 THEN [p1 EXCEPT !.had_error = TRUE,
                                 !.errs = Report(@, "Can't have more than 255 parameters.",
                                                 Parser_peek(p1).line)]
                 ELSE p1, LAMBDA p2 :
           Let(Parser_consume(p2, "Identifier", "Expect parameter name."), LAMBDA param :
        IF ~param.ok THEN param
          ELSE Parser_params_loop(param.ps, Append(params, param.node)))))

\* Parser::function.  loop_depth is left as the enclosing code has it.
Parser_function(ps, kind) ==
  Let(Parser_consume(ps, "Identifier", "Expect " \o kind \o " name."), LAMBDA name :
  IF ~name.ok THEN name
  ELSE
  Let(Parser_consume(name.ps, "LeftBracket",
                             "Expect '(' after " \o kind \o " name."), LAMBDA open :
  IF ~open.ok THEN open
  ELSE
  Let(IF Parser_check(open.ps, "RightBracket") THEN POk(open.ps, <<>>)
                ELSE Let(Parser_consume(open.ps, "Identifier",
                                                 "Expect parameter name."), LAMBDA first :
                     IF ~first.ok THEN first
                     ELSE Parser_params_loop(first.ps, <<first.node>>)), LAMBDA params :
  IF ~params.ok THEN params
  ELSE
  Let(Parser_consume(params.ps, "RightBracket", "Expect ')' after parameters."), LAMBDA close :
  IF ~close.ok THEN close
  ELSE
  Let(Parser_consume(close.ps, "LeftBrace",
                              "Expect '{' before " \o kind \o " body."), LAMBDA brace :
  IF ~brace.ok THEN brace
  ELSE
  Let(Parser_block(brace.ps), LAMBDA body :
  IF ~body.ok THEN body
  ELSE POk(body.ps, FunctionStmt(name.node, params.node, body.node))))))))

\* The while loop of Parser::class_declaration over the methods
RECURSIVE Parser_methods_loop(_, _)
Parser_methods_loop(ps, methods) ==
  IF Parser_check(ps, "RightBrace") \/ Parser_is_at_end(ps) THEN POk(ps, methods)
  ELSE Let(Parser_function(ps, "method"), LAMBDA m :
       IF ~m.ok THEN m ELSE Parser_methods_loop(m.ps, Append(methods, m.node)))

\* Parser::class_declaration
Parser_class_declaration(ps) ==
  Let(Parser_consume(ps, "Identifier", "Expect class name."), LAMBDA name :
  IF ~name.ok THEN name
  ELSE
  Let(
        IF Parser_check(name.ps, "Less")
        THEN Let(Parser_consume(Parser_advance(name.ps), "Identifier",
                                     "Expect superclass name."), LAMBDA s :
             IF ~s.ok THEN s
             ELSE POk(s.ps, VariableExpr(<<ps.run, s.ps.current>>, s.node)))
        ELSE POk(name.ps, NoNode), LAMBDA superclass :
  IF ~superclass.ok THEN superclass
  ELSE
  Let(Parser_consume(superclass.ps, "LeftBrace",
                              "Expect '{' before class body."), LAMBDA brace :
  IF ~brace.ok THEN brace
  ELSE
  Let(Parser_methods_loop(brace.ps, <<>>), LAMBDA methods :
  IF ~methods.ok THEN methods
  ELSE
  Let(Parser_consume(methods.ps, "RightBrace", "Expect '}' after class body."), LAMBDA close :
  IF ~close.ok THEN close
  ELSE POk(close.ps, ClassStmt(name.node, superclass.node, methods.node)))))))

\* Parser::var_declaration
Parser_var_declaration(ps) ==
  Let(Parser_consume(ps, "Identifier", "Expect variable name."), LAMBDA name :
  IF ~name.ok THEN name
  ELSE
  Let(IF Parser_check(name.ps, "Assign")
                     THEN Parser_expression(Parser_advance(name.ps))
                     ELSE POk(name.ps, NoNode), LAMBDA initialiser :
  IF ~initialiser.ok THEN initialiser
  ELSE
  Let(Parser_consume(initialiser.ps, "Semicolon",
                             "Expect ';' after variable declaration."), LAMBDA semi :
  IF ~semi.ok THEN semi
  ELSE POk(semi.ps, VarStmt(name.node, initialiser.node)))))

\* Parser::expression_statement
Parser_expression_statement(ps) ==
  Let(Parser_expression(ps), LAMBDA expr :
  IF ~expr.ok THEN expr
  ELSE Let(Parser_consume(expr.ps, "Semicolon", "Expect ';' after expression."), LAMBDA semi :
       IF ~semi.ok THEN semi ELSE POk(semi.ps, ExpressionStmt(expr.node))))

\* Parser::print_statement
Parser_print_statement(ps) ==
  Let(Parser_expression(ps), LAMBDA value :
  IF ~value.ok THEN value
  ELSE Let(Parser_consume(value.ps, "Semicolon", "Expect ';' after value."), LAMBDA semi :
       IF ~semi.ok THEN semi ELSE POk(semi.ps, PrintStmt(value.node))))

\* Parser::return_statement
Parser_return_statement(ps) ==
  Let(Parser_previous(ps), LAMBDA keyword :
      Let(IF Parser_check(ps, "Semicolon") THEN POk(ps, NoNode)
               ELSE Parser_expression(ps), LAMBDA value :
  IF ~value.ok THEN value
  ELSE Let(Parser_consume(value.ps, "Semicolon",
                                  "Expect ';' after return value."), LAMBDA semi :
       IF ~semi.ok THEN semi ELSE POk(semi.ps, ReturnStmt(keyword, value.node)))))

\* Parser::break_statement.  Outside of a loop the error is reported and
\* had_error set, and parsing goes on.
Parser_break_statement(ps) ==
  Let(IF ps.loop_depth = 0
            THEN [ps EXCEPT !.had_error = TRUE,
                            !.errs = Report(@, "Must be inside a loop to use 'break'.",
                                            Parser_previous(ps).line)]
            ELSE ps, LAMBDA p0 :
      Let(Traced(p0, [ev |-> "break", depth |-> ps.loop_depth,
                      reported |-> p0.had_error /\ p0.errs # ps.errs]), LAMBDA p1 :
      Let(Parser_consume(p1, "Semicolon", "Expect ';' after 'break'."), LAMBDA semi :
  IF ~semi.ok THEN semi ELSE POk(semi.ps, BreakStmt(Parser_peek(semi.ps))))))

\* Parser::if_statement
Parser_if_statement(ps) ==
  Let(Parser_consume(ps, "LeftBracket", "Expect '(' after 'if'."), LAMBDA open :
  IF ~open.ok THEN open
  ELSE
  Let(Parser_expression(open.ps), LAMBDA condition :
  IF ~condition.ok THEN condition
  ELSE
  Let(Parser_consume(condition.ps, "RightBracket",
                              "Expect ')' after if condition."), LAMBDA close :
  IF ~close.ok THEN close
  ELSE
  Let(Parser_rule("statement", close.ps), LAMBDA then_branch :
  IF ~then_branch.ok THEN then_branch
  ELSE
  Let(IF Parser_check(then_branch.ps, "Else")
                     THEN Parser_rule("statement", Parser_advance(then_branch.ps))
                     ELSE POk(then_branch.ps, NoNode), LAMBDA else_branch :
  IF ~else_branch.ok THEN else_branch
  ELSE POk(else_branch.ps, IfStmt(condition.node, then_branch.node, else_branch.node)))))))

\* Parser::while_statement with the body called as `self.statement()?`: the
\* counter is not restored when the body fails
Parser_while_statement_unbalanced(ps) ==
  Let(Parser_consume(ps, "LeftBracket", "Expect '(' after 'while'."), LAMBDA open :
  IF ~open.ok THEN open
  ELSE
  Let(Parser_expression(open.ps), LAMBDA condition :
  IF ~condition.ok THEN condition
  ELSE
  Let(Parser_consume(condition.ps, "RightBracket",
                              "Expect ')' after condition."), LAMBDA close :
  IF ~close.ok THEN close
  ELSE
  Let(Parser_rule("statement", EnterBody([close.ps EXCEPT !.loop_depth = @ + 1])), LAMBDA body :
      Let(LeaveBody([body.ps EXCEPT !.loop_depth = @ - 1]), LAMBDA after :
  IF ~body.ok THEN [body EXCEPT !.ps = LeaveBody(body.ps)]
  ELSE POk(after, WhileStmt(condition.node, body.node)))))))

\* Parser::while_statement
Parser_while_statement(ps) ==
  Let(Parser_consume(ps, "LeftBracket", "Expect '(' after 'while'."), LAMBDA open :
  IF ~open.ok THEN open
  ELSE
  Let(Parser_expression(open.ps), LAMBDA condition :
  IF ~condition.ok THEN condition
  ELSE
  Let(Parser_consume(condition.ps, "RightBracket",
                              "Expect ')' after condition."), LAMBDA close :
  IF ~close.ok THEN close
  ELSE
  Let(Parser_rule("statement", EnterBody([close.ps EXCEPT !.loop_depth = @ + 1])), LAMBDA body :
      Let(LeaveBody([body.ps EXCEPT !.loop_depth = @ - 1]), LAMBDA after :
  IF ~body.ok THEN [body EXCEPT !.ps = after]
  ELSE POk(after, WhileStmt(condition.node, body.node)))))))

\* A for loop whose increment runs before the body
ForLoop_increment_first(initialiser, condition, increment, body) ==
  Let(IF increment # NoNode
      THEN BlockStmt(<<ExpressionStmt(increment), body>>)
      ELSE body, LAMBDA stepped :
  Let(WhileStmt(IF condition # NoNode THEN condition ELSE LiteralExpr(Boolean(TRUE)),
                stepped), LAMBDA loop :
  IF initialiser # NoNode THEN BlockStmt(<<initialiser, loop>>) ELSE loop))

\* The statement Parser::for_statement builds of the clauses and the body
\* of a for loop; NoNode is None
ForLoop(initialiser, condition, increment, body) ==
  Let(IF increment # NoNode
      THEN BlockStmt(<<body, ExpressionStmt(increment)>>)
      ELSE body, LAMBDA stepped :
  Let(WhileStmt(IF condition # NoNode THEN condition ELSE LiteralExpr(Boolean(TRUE)),
                stepped), LAMBDA loop :
  IF initialiser # NoNode THEN BlockStmt(<<initialiser, loop>>) ELSE loop))

\* Parser::for_statement: the loop is rewritten into blocks and a while
Parser_for_statement(ps) ==
  Let(Parser_consume(ps, "LeftBracket", "Expect '(' after 'for'."), LAMBDA open :
  IF ~open.ok THEN open
  ELSE
  Let(
        IF Parser_check(open.ps, "Semicolon") THEN POk(Parser_advance(open.ps), NoNode)
        ELSE IF Parser_check(open.ps, "Var")
             THEN Parser_var_declaration(Parser_advance(open.ps))
             ELSE Parser_expression_statement(open.ps), LAMBDA initialiser :
  IF ~initialiser.ok THEN initialiser
  ELSE
  Let(IF Parser_check(initialiser.ps, "Semicolon")
                   THEN POk(initialiser.ps, NoNode)
                   ELSE Parser_expression(initialiser.ps), LAMBDA condition :
  IF ~condition.ok THEN condition
  ELSE
  Let(Parser_consume(condition.ps, "Semicolon",
                             "Expect ';' after loop condition."), LAMBDA semi :
  IF ~semi.ok THEN semi
  ELSE
  Let(IF Parser_check(semi.ps, "RightBracket") THEN POk(semi.ps, NoNode)
                   ELSE Parser_expression(semi.ps), LAMBDA increment :
  IF ~increment.ok THEN increment
  ELSE
  Let(Parser_consume(increment.ps, "RightBracket",
                              "Expect ')' after for clauses."), LAMBDA close :
  IF ~close.ok THEN close
  ELSE
  Let(Parser_rule("statement", EnterBody([close.ps EXCEPT !.loop_depth = @ + 1])), LAMBDA body :
      Let(LeaveBody([body.ps EXCEPT !.loop_depth = @ - 1]), LAMBDA after :
  IF ~body.ok THEN [body EXCEPT !.ps = after]
  ELSE POk(after, ForLoop(initialiser.node, condition.node, increment.node,
                          body.node))))))))))

\* Parser::statement
Parser_statement(ps) ==
  Let(Parser_advance(ps), LAMBDA p1 :
  CASE Parser_check(ps, "For") -> Parser_for_statement(p1)
    [] Parser_check(ps, "If") -> Parser_if_statement(p1)
    [] Parser_check(ps, "Print") -> Parser_print_statement(p1)
    [] Parser_check(ps, "Return") -> Parser_return_statement(p1)
    [] Parser_check(ps, "While") -> Parser_while_statement(p1)
    [] Parser_check(ps, "LeftBrace") ->
         Let(Parser_block(p1), LAMBDA b :
         IF ~b.ok THEN b ELSE POk(b.ps, BlockStmt(b.node)))
    [] Parser_check(ps, "Break") -> Parser_break_statement(p1)
    [] OTHER -> Parser_expression_statement(ps))

\* Parser::declaration: after an error the parser synchronises
Parser_declaration(ps) ==
  Let(Parser_advance(ps), LAMBDA p1 :
      Let(CASE Parser_check(ps, "Class") -> Parser_class_declaration(p1)
               [] Parser_check(ps, "Fun") -> Parser_function(p1, "function")
               [] Parser_check(ps, "Var") -> Parser_var_declaration(p1)
               [] OTHER -> Parser_rule("statement", ps), LAMBDA res :
  IF res.ok THEN res
  ELSE Let(Parser_synchronise(res.ps), LAMBDA p2 :
       [res EXCEPT !.ps = [p2 EXCEPT !.syncs = Append(@,
          [from |-> res.ps.current, to |-> p2.current, errs |-> Len(res.ps.errs)])]])))

\* The loop of Parser::parse with its test after the declaration: a loop
\* that parses a declaration before it looks for the end
RECURSIVE Parser_parse_loop_unguarded(_, _)
Parser_parse_loop_unguarded(ps, statements) ==
  Let(Parser_rule("declaration",
                  Traced(ps, [ev |-> "declaration", depth |-> ps.loop_depth,
                              current |-> ps.current])), LAMBDA d :
  Let(IF d.ok THEN POk(d.ps, Append(statements, d.node))
      ELSE POk([d.ps EXCEPT !.had_error = TRUE], statements), LAMBDA turn :
  IF Parser_is_at_end(turn.ps) THEN turn
  ELSE Parser_parse_loop_unguarded(turn.ps, turn.node)))

\* The while loop of Parser::parse: a failed declaration sets had_error and
\* parsing goes on with the next one
RECURSIVE Parser_parse_loop(_, _)
Parser_parse_loop(ps, statements) ==
  IF Parser_is_at_end(ps) THEN POk(ps, statements)
  ELSE Let(Parser_rule("declaration",
                       Traced(ps, [ev |-> "declaration", depth |-> ps.loop_depth,
                                   current |-> ps.current])), LAMBDA d :
       IF d.ok THEN Parser_parse_loop(d.ps, Append(statements, d.node))
       ELSE Parser_parse_loop([d.ps EXCEPT !.had_error = TRUE], statements))

\* The dispatch of a call self.rule() among the methods of the parser
Parser_rule(rule, ps) ==
  CASE rule = "assignment" -> Parser_assignment(ps)
    [] rule = "or" -> Parser_or(ps)
    [] rule = "and" -> Parser_and(ps)
    [] rule = "equality" -> Parser_equality(ps)
    [] rule = "comparison" -> Parser_comparison(ps)
    [] rule = "term" -> Parser_term(ps)
    [] rule = "factor" -> Parser_factor(ps)
    [] rule = "unary" -> Parser_unary(ps)
    [] rule = "call" -> Parser_call(ps)
    [] rule = "primary" -> Parser_primary(ps)
    [] rule = "declaration" -> Parser_declaration(ps)
    [] rule = "statement" -> Parser_statement(ps)

\* A parse that hands back the statements it could parse whether or not an
\* error was recorded
Parser_parse_lenient(ps) ==
  Let(Parser_parse_loop(ps, <<>>), LAMBDA r :
  [ok |-> TRUE, node |-> r.node, ps |-> r.ps])

\* Parser::parse: Ok(statements) when no error was recorded, else
\* Err(LoxError::new_parse_failure())
Parser_parse(ps) ==
  Let(Parser_parse_loop(ps, <<>>), LAMBDA r :
  [ok |-> ~r.ps.had_error,
   node |-> IF r.ps.had_error THEN <<>> ELSE r.node,
   ps |-> r.ps])

--------------------------------------------------------------------------
(* Resolver (resolver.rs).  The resolver state rs is the struct Resolver   *)
(* with errs, the lines written to stderr, and locals, the side table of   *)
(* the interpreter that Interpreter::resolve fills.  A visit returns       *)
(* [ok, rs]: Ok(()) or Err, and the resolver after the call.               *)

THIS == <<"t", "h", "i", "s">>
SUPER == <<"s", "u", "p", "e", "r">>
INIT == <<"i", "n", "i", "t">>

\* Resolver::new
Resolver_new(locals) ==
  [scopes |-> <<>>, current_class_type |-> "None", current_function_type |-> "None",
   had_error |-> FALSE, errs |-> <<>>, locals |-> locals]

ROk(rs) == [ok |-> TRUE, rs |-> rs]

\* Err(LoxError::parse_error(token, message))
RErr(rs, token, message) ==
  [ok |-> FALSE, rs |-> [rs EXCEPT !.errs = Report(@, message, token.line)]]

\* self.had_error.replace(true); LoxError::parse_error(token, message);
Resolver_error(rs, token, message) ==
  [rs EXCEPT !.had_error = TRUE, !.errs = Report(@, message, token.line)]

\* Resolver::begin_scope
Resolver_begin_scope(rs) == [rs EXCEPT !.scopes = Append(@, [k \in {} |-> FALSE])]

\* Resolver::end_scope
Resolver_end_scope(rs) ==
  [rs EXCEPT !.scopes = IF @ = <<>> THEN @ ELSE SubSeq(@, 1, Len(@) - 1)]

\* Resolver::declare
Resolver_declare(rs, name) ==
  IF rs.scopes = <<>> THEN rs
  ELSE Let(Len(rs.scopes), LAMBDA n :
           Let(IF name.lexeme \in DOMAIN rs.scopes[n]
                 THEN Resolver_error(rs, name,
                        "Already a variable with this name in this scope.")
                 ELSE rs, LAMBDA r1 :
        [r1 EXCEPT !.scopes[n] = MapInsert(@, name.lexeme, FALSE)]))

\* Resolver::define
Resolver_define(rs, name) ==
  IF rs.scopes = <<>> THEN rs
  ELSE [rs EXCEPT !.scopes[Len(rs.scopes)] = MapInsert(@, name.lexeme, TRUE)]

\* Interpreter::resolve
Interpreter_resolve(locals, id, depth) == MapInsert(locals, id, depth)

\* Resolver::resolve_local: the innermost scope that holds the name gives
\* the distance; no scope holds it: nothing is recorded
Resolver_resolve_local(rs, id, name) ==
  Let({i \in 1..Len(rs.scopes) : name.lexeme \in DOMAIN rs.scopes[i]}, LAMBDA holders :
  IF holders = {} THEN rs
  ELSE Let(CHOOSE j \in holders : \A l \in holders : l <= j, LAMBDA i :
       [rs EXCEPT !.locals = Interpreter_resolve(@, id, Len(rs.scopes) - i)]))

RECURSIVE Resolver_resolve_expr(_, _)
RECURSIVE Resolver_resolve_stmt(_, _)

\* A for loop over expressions with `?` on each
RECURSIVE Resolver_resolve_exprs(_, _)
Resolver_resolve_exprs(rs, exprs) ==
  IF exprs = <<>> THEN ROk(rs)
  ELSE Let(Resolver_resolve_expr(rs, Head(exprs)), LAMBDA r :
       IF ~r.ok THEN r ELSE Resolver_resolve_exprs(r.rs, Tail(exprs)))

\* Expr::accept with the Resolver as the visitor
Resolver_resolve_expr(rs, expr) ==
  CASE expr.k = "Assign" ->
         Let(Resolver_resolve_expr(rs, expr.value), LAMBDA v :
         IF ~v.ok THEN v ELSE ROk(Resolver_resolve_local(v.rs, expr.id, expr.name)))
    [] expr.k \in {"Binary", "Logical"} ->
         Resolver_resolve_exprs(rs, <<expr.left, expr.right>>)
    [] expr.k = "Call" -> Resolver_resolve_exprs(rs, <<expr.callee>> \o expr.arguments)
    [] expr.k = "Get" -> Resolver_resolve_expr(rs, expr.object)
    [] expr.k = "Grouping" -> Resolver_resolve_expr(rs, expr.expression)
    [] expr.k = "Literal" -> ROk(rs)
    [] expr.k = "Set" -> Resolver_resolve_exprs(rs, <<expr.value, expr.object>>)
    [] expr.k = "Super" -> ROk(rs)
    [] expr.k = "This" ->
         IF rs.current_class_type = "None"
         THEN ROk(Resolver_error(rs, expr.keyword, "Can't use 'this' outside of a class."))
         ELSE ROk(Resolver_resolve_local(rs, expr.id, expr.keyword))
    [] expr.k = "Unary" -> Resolver_resolve_expr(rs, expr.right)
    [] expr.k = "Variable" ->
         IF /\ rs.scopes # <<>>
            /\ expr.name.lexeme \in DOMAIN rs.scopes[Len(rs.scopes)]
            /\ ~rs.scopes[Len(rs.scopes)][expr.name.lexeme]
         THEN RErr(rs, expr.name, "Can't read local variable in its own initialiser.")
         ELSE ROk(Resolver_resolve_local(rs, expr.id, expr.name))

\* The for loop of Resolver::resolve: a statement that fails sets had_error
\* and the loop goes on
RECURSIVE Resolver_resolve_loop(_, _)
Resolver_resolve_loop(rs, statements) ==
  IF statements = <<>> THEN rs
  ELSE Let(Resolver_resolve_stmt(rs, Head(statements)), LAMBDA r :
       Resolver_resolve_loop(IF r.ok THEN r.rs ELSE [r.rs EXCEPT !.had_error = TRUE],
                             Tail(statements)))

\* Resolver::resolve
Resolver_resolve(rs, statements) ==
  Let(Resolver_resolve_loop(rs, statements), LAMBDA r :  [ok |-> ~r.had_error, rs |-> r])

\* The parameter loop of Resolver::resolve_function
RECURSIVE Resolver_params(_, _)
Resolver_params(rs, params) ==
  IF params = <<>> THEN rs
  ELSE Resolver_params(Resolver_define(Resolver_declare(rs, Head(params)), Head(params)),
                       Tail(params))

\* Resolver::resolve_function: when the body fails, `?` returns before
\* end_scope and before current_function_type is put back
Resolver_resolve_function(rs, function, function_type) ==
  Let(rs.current_function_type, LAMBDA enclosing_function_type :
      Let(Resolver_params(
              Resolver_begin_scope([rs EXCEPT !.current_function_type = function_type]),
              function.params), LAMBDA r1 :
      Let(Resolver_resolve(r1, function.body), LAMBDA body :
  IF ~body.ok THEN body
  ELSE ROk([Resolver_end_scope(body.rs) EXCEPT
              !.current_function_type = enclosing_function_type]))))

\* The method loop of Resolver::visit_class_stmt
RECURSIVE Resolver_methods(_, _)
Resolver_methods(rs, methods) ==
  IF methods = <<>> THEN ROk(rs)
  ELSE Let(Head(methods), LAMBDA m :
           Let(Resolver_resolve_function(
                  rs, m, IF m.name.lexeme = INIT THEN "Initialiser" ELSE "Method"), LAMBDA r :
        IF ~r.ok THEN r ELSE Resolver_methods(r.rs, Tail(methods))))

\* Resolver::visit_class_stmt: one scope, holding `this`, around the
\* methods; the superclass expression is not visited
Resolver_visit_class_stmt(rs, stmt) ==
  Let(rs.current_class_type, LAMBDA enclosing_class :
      Let(Resolver_define(
              Resolver_declare([rs EXCEPT !.current_class_type = "Class"], stmt.name),
              stmt.name), LAMBDA r1 :
      Let(Resolver_begin_scope(r1), LAMBDA r2 :
      Let([r2 EXCEPT !.scopes[Len(r2.scopes)] = MapInsert(@, THIS, TRUE)], LAMBDA r3 :
      Let(Resolver_methods(r3, stmt.methods), LAMBDA methods :
  IF ~methods.ok THEN methods
  ELSE ROk([Resolver_end_scope(methods.rs) EXCEPT !.current_class_type = enclosing_class]))))))

\* Resolver::visit_return_stmt
Resolver_visit_return_stmt(rs, stmt) ==
  Let(IF rs.current_function_type = "None"
            THEN Resolver_error(rs, stmt.keyword, "Can't return from top-level code.")
            ELSE rs, LAMBDA r1 :
  IF stmt.value = NoNode THEN ROk(r1)
  ELSE Resolver_resolve_expr(
         IF r1.current_function_type = "Initialiser"
         THEN Resolver_error(r1, stmt.keyword, "Can't return a value from an initializer.")
         ELSE r1,
         stmt.value))

\* Stmt::accept with the Resolver as the visitor
Resolver_resolve_stmt(rs, stmt) ==
  CASE stmt.k = "Block" ->
         Let(Resolver_resolve(Resolver_begin_scope(rs), stmt.statements), LAMBDA b :
         IF ~b.ok THEN b ELSE ROk(Resolver_end_scope(b.rs)))
    [] stmt.k = "Break" -> ROk(rs)
    [] stmt.k = "Class" -> Resolver_visit_class_stmt(rs, stmt)
    [] stmt.k = "Expression" -> Resolver_resolve_expr(rs, stmt.expression)
    [] stmt.k = "Function" ->
         Resolver_resolve_function(
           Resolver_define(Resolver_declare(rs, stmt.name), stmt.name), stmt, "Function")
    [] stmt.k = "If" ->
         Let(Resolver_resolve_expr(rs, stmt.condition), LAMBDA c :
         IF ~c.ok THEN c
         ELSE Let(Resolver_resolve_stmt(c.rs, stmt.then_branch), LAMBDA t :
              IF ~t.ok \/ stmt.else_branch = NoNode THEN t
              ELSE Resolver_resolve_stmt(t.rs, stmt.else_branch)))
    [] stmt.k = "Print" -> Resolver_resolve_expr(rs, stmt.expression)
    [] stmt.k = "Return" -> Resolver_visit_return_stmt(rs, stmt)
    [] stmt.k = "Var" ->
         Let(Resolver_declare(rs, stmt.name), LAMBDA r1 :
             Let(IF stmt.initialiser = NoNode THEN ROk(r1)
                  ELSE Resolver_resolve_expr(r1, stmt.initialiser), LAMBDA i :
          IF ~i.ok THEN i ELSE ROk(Resolver_define(i.rs, stmt.name))))
    [] stmt.k = "While" ->
         Let(Resolver_resolve_expr(rs, stmt.condition), LAMBDA c :
         IF ~c.ok THEN c ELSE Resolver_resolve_stmt(c.rs, stmt.body))

--------------------------------------------------------------------------
(* Interpreter (interpreter.rs) and the callables (lox_function.rs,        *)
(* lox_class.rs, lox_instance.rs).  The interpreter state `it` holds       *)
(*   heap         the Environment frames; frame 1 is `globals`             *)
(*   environment  the current frame                                        *)
(*   locals       the distances, by node identity                          *)
(*   funs, classes, insts   the LoxFunction, LoxClass and LoxInstance      *)
(*                objects that values of type fun, class and inst name by  *)
(*                their index n                                            *)
(*   printed      the values given to println!                             *)
(*   errs         the lines LoxError::runtime_error wrote to stderr        *)
(*   fuel         the calls and loop iterations left before the model      *)
(*                stops following the execution                            *)
(*   log, curfn, callenv   a history of the lookups, property reads, calls *)
(*                and instantiations of the current run, with the function *)
(*                whose body is executing and the frame of its call        *)
(* Evaluation returns [kind, v, it]: kind is "ok" (Ok(v)), "runtime" (a    *)
(* RuntimeErr), "break" or "return" (the control-flow variants of          *)
(* LoxError), "panic" (the process aborts) or "bound" (out of fuel, or     *)
(* arithmetic the model does not follow).                                  *)

\* The calls and loop iterations followed in one call of interpret
MaxFuel == 8

Function(n) == [t |-> "fun", n |-> n, s |-> <<>>]
Class(n) == [t |-> "class", n |-> n, s |-> <<>>]
Instance(n) == [t |-> "inst", n |-> n, s |-> <<>>]
NativeFunction == [t |-> "native", n |-> 0, s |-> <<>>]

CLOCK == <<"c", "l", "o", "c", "k">>

\* Interpreter::new: globals holds the native function clock
Interpreter_new ==
  [heap |-> <<[values |-> MapInsert(EmptyMap, CLOCK, NativeFunction), enclosing |-> 0]>>,
   environment |-> 1, locals |-> EmptyMap, funs |-> <<>>, classes |-> <<>>,
   insts |-> <<>>, printed |-> <<>>, errs |-> <<>>, fuel |-> MaxFuel,
   log |-> <<>>, curfn |-> 0, callenv |-> 0]

\* Interpreter::get_globals
Globals == 1

IR(kind, v, it) == [kind |-> kind, v |-> v, it |-> it]

\* format!("{}", lexeme): the characters as one string
RECURSIVE Text(_)
Text(cs) == IF cs = <<>> THEN "" ELSE cs[1] \o Text(Tail(cs))

\* Err(LoxError::runtime_error(token, message))
RuntimeError(it, token, message) ==
  IR("runtime", Nil, [it EXCEPT !.errs = Report(@, message, token.line)])

\* Interpreter::is_truthy
is_truthy(object) == ~(object = Nil \/ object = Boolean(FALSE))

\* The frame exactly d links above frame e, 0 when the chain is shorter
RECURSIVE Ancestor(_, _, _)
Ancestor(h, e, d) ==
  IF e = 0 \/ d = 0 THEN e ELSE Ancestor(h, h[e].enclosing, d - 1)

\* The last frame of a walk of get_at or assign_at over the frames seen
LastSeen(h, seen) == CHOOSE f \in seen : h[f].enclosing \notin seen

\* The nearest frame of the chain of e that holds the name, 0 when none
RECURSIVE NearestHolder(_, _, _)
NearestHolder(h, e, name) ==
  IF e = 0 THEN 0
  ELSE IF name \in DOMAIN h[e].values THEN e
  ELSE NearestHolder(h, h[e].enclosing, name)

\* The record of one variable lookup or assignment in the history
LookupEvent(it, ev, id, name, r) ==
  Let(id \in DOMAIN it.locals, LAMBDA resolved :
      Let(IF resolved THEN it.locals[id] ELSE 0, LAMBDA d :
      Let(IF resolved THEN Ancestor(it.heap, it.environment, d) ELSE Globals, LAMBDA target :
   [ev |-> ev, id |-> id, name |-> name, fn |-> it.curfn, callenv |-> it.callenv,
      resolved |-> resolved, dist |-> d,
      held |-> target # 0 /\ name \in DOMAIN it.heap[target].values,
      served |-> IF r.kind # "ok" THEN 0
                 ELSE IF resolved THEN LastSeen(it.heap, r.seen) ELSE Globals])))

\* Interpreter::look_up_variable
Interpreter_look_up_variable(it, name, id) ==
  IF id \in DOMAIN it.locals
  THEN Let(Environment_get_at(it.heap, it.environment, it.locals[id],
                                   name.lexeme, build), LAMBDA r :
        IR(r.kind, r.v,
             [it EXCEPT !.log = Append(@, LookupEvent(it, "lookup", id, name.lexeme, r))]))
  ELSE Let(Environment_get(it.heap, Globals, name.lexeme), LAMBDA r :
           Let([it EXCEPT !.log = Append(@,
                        LookupEvent(it, "lookup", id, name.lexeme,
                                    [kind |-> IF r.ok THEN "ok" ELSE "err", seen |-> {}]))], LAMBDA logged :
        IF r.ok THEN IR("ok", r.v, logged)
          ELSE RuntimeError(logged, name, "Undefined variable '" \o Text(name.lexeme) \o "'.")))

\* The digits of a natural number
RECURSIVE NatChars(_)
NatChars(n) ==
  Let(<<"0", "1", "2", "3", "4", "5", "6", "7", "8", "9">>[(n % 10) + 1], LAMBDA d :
  IF n < 10 THEN <<d>> ELSE NatChars(n \div 10) \o <<d>>)

\* Display of Literal for the numbers and strings that `+` concatenates:
\* an f64 without fraction prints as an integer
Literal_display(v) ==
  IF v.t = "str" THEN v.s
  ELSE IF v.t = "nil" THEN <<"n", "i", "l">>
  ELSE IF v.t = "bool"
  THEN (IF v = Boolean(TRUE) THEN <<"t", "r", "u", "e">> ELSE <<"f", "a", "l", "s", "e">>)
  ELSE (IF v.n < 0 THEN <<"-">> \o NatChars(0 - v.n) ELSE NatChars(v.n))
       \o (IF v.s = <<>> THEN <<>> ELSE <<".">> \o v.s)

\* The arms of Interpreter::visit_binary_expr
Interpreter_binary(it, operator, left, right) ==
  Let(operator.type, LAMBDA op :
      Let(CASE op = "BangEqual" -> IR("ok", Boolean(TRUE), it)
                 [] op = "EqualEqual" -> IR("ok", Boolean(FALSE), it)
                 [] op = "Plus" ->
                      RuntimeError(it, operator,
                                   "Operands must be two numbers or two strings.")
                 [] OTHER -> RuntimeError(it, operator, "Operands must be numbers."), LAMBDA Other :
  CASE left.t = "num" /\ right.t = "num" ->
         IF op \in {"BangEqual", "EqualEqual"}
         THEN IR("ok", Boolean((left = right) = (op = "EqualEqual")), it)
         ELSE IF left.s # <<>> \/ right.s # <<>> THEN IR("bound", Nil, it)
         ELSE CASE op = "Plus" -> IR("ok", Number(left.n + right.n), it)
                [] op = "Minus" -> IR("ok", Number(left.n - right.n), it)
                [] op = "Star" -> IR("ok", Number(left.n * right.n), it)
                [] op = "Slash" ->
                     IF right.n # 0 /\ left.n % right.n = 0 /\ right.n > 0
                     THEN IR("ok", Number(left.n \div right.n), it)
                     ELSE IR("bound", Nil, it)
                [] op = "Greater" -> IR("ok", Boolean(left.n > right.n), it)
                [] op = "GreaterEqual" -> IR("ok", Boolean(left.n >= right.n), it)
                [] op = "Less" -> IR("ok", Boolean(left.n < right.n), it)
                [] op = "LessEqual" -> IR("ok", Boolean(left.n <= right.n), it)
                [] OTHER -> RuntimeError(it, operator, "INTERPRETER INTERNAL ERROR.")
    [] left.t = "str" /\ right.t = "str" ->
         CASE op = "Plus" -> IR("ok", String(left.s \o right.s), it)
           [] op = "BangEqual" -> IR("ok", Boolean(left.s # right.s), it)
           [] op = "EqualEqual" -> IR("ok", Boolean(left.s = right.s), it)
           [] OTHER -> RuntimeError(it, operator, "Operands must be numbers.")
    [] {left.t, right.t} = {"str", "num"} ->
         CASE op = "Plus" ->
                IR("ok", String(Literal_display(left) \o Literal_display(right)), it)
           [] op = "BangEqual" -> IR("ok", Boolean(TRUE), it)
           [] op = "EqualEqual" -> IR("ok", Boolean(FALSE), it)
           [] OTHER -> RuntimeError(it, operator, "Operands must be numbers.")
    [] left.t = "bool" /\ right.t = "bool" ->
         CASE op = "BangEqual" -> IR("ok", Boolean(left # right), it)
           [] op = "EqualEqual" -> IR("ok", Boolean(left = right), it)
           [] OTHER -> Other
    [] left.t = "nil" /\ right.t = "nil" ->
         CASE op = "BangEqual" -> IR("ok", Boolean(FALSE), it)
           [] op = "EqualEqual" -> IR("ok", Boolean(TRUE), it)
           [] OTHER -> Other
    [] OTHER -> Other))

\* LoxClass::find_method: the class, then its superclasses
RECURSIVE LoxClass_find_method(_, _, _)
LoxClass_find_method(classes, c, name) ==
  IF name \in DOMAIN classes[c].methods
  THEN [some |-> TRUE, v |-> classes[c].methods[name]]
  ELSE IF classes[c].superclass # 0
       THEN LoxClass_find_method(classes, classes[c].superclass, name)
       ELSE [some |-> FALSE, v |-> Nil]

\* LoxInstance::get: a field, else the method of the class as find_method
\* returns it, else a runtime error
LoxInstance_get(it, i, name) ==
  LET m == LoxClass_find_method(it.classes, it.insts[i].class, name.lexeme)
      Logged(kind, v) ==
        [it EXCEPT !.log = Append(@, [ev |-> "get", inst |-> i, name |-> name.lexeme,
                                       kind |-> kind, v |-> v])]
  IN
  IF name.lexeme \in DOMAIN it.insts[i].fields
  THEN IR("ok", it.insts[i].fields[name.lexeme],
          Logged("field", it.insts[i].fields[name.lexeme]))
  ELSE IF m.some THEN IR("ok", m.v, Logged("method", m.v))
  ELSE RuntimeError(Logged("undefined", Nil), name,
                    "Undefined property '" \o Text(name.lexeme) \o "'.")

\* LoxInstance::set
LoxInstance_set(it, i, name, value) ==
  [it EXCEPT !.insts[i].fields = MapInsert(@, name.lexeme, value)]

\* For each name bound in the chain of frame e, the nearest frame holding it
RECURSIVE ChainNames(_, _)
ChainNames(h, e) ==
  IF e = 0 THEN {} ELSE DOMAIN h[e].values \cup ChainNames(h, h[e].enclosing)

Captured(h, e) == [name \in ChainNames(h, e) |-> NearestHolder(h, e, name)]

\* LoxFunction::new: the closure is the environment given.  `declared` and
\* `captured` are history: how the object was made, and the bindings in
\* effect in the closure where it was made.
LoxFunction_new(closure, declaration, is_initialiser) ==
  [closure |-> closure, name |-> declaration.name, params |-> declaration.params,
   body |-> declaration.body, is_initialiser |-> is_initialiser,
   declared |-> "new", captured |-> EmptyMap]

\* LoxFunction::bind: a new frame that encloses the closure and binds
\* `this`, and a new function object closing over it
LoxFunction_bind(it, f, instance) ==
  Let(Len(it.heap) + 1, LAMBDA env :
      Let(Environment_define(
              Append(it.heap, Environment_new_with_enclosing(it.funs[f].closure)),
              env, THIS, instance), LAMBDA h1 :
   IR("ok", Function(Len(it.funs) + 1),
        [it EXCEPT !.heap = h1,
                   !.funs = Append(@, [it.funs[f] EXCEPT !.closure = env,
                                                         !.declared = "bound",
                                                         !.captured = Captured(h1, env)])])))

RECURSIVE Interpreter_evaluate(_, _)
RECURSIVE Interpreter_execute(_, _)

\* The try_for_each of Interpreter::execute_block and the for loop of
\* Interpreter::interpret: the statements in order, up to the first Err
RECURSIVE Interpreter_execute_all(_, _)
Interpreter_execute_all(it, statements) ==
  IF statements = <<>> THEN IR("ok", Nil, it)
  ELSE Let(Interpreter_execute(it, Head(statements)), LAMBDA r :
       IF r.kind # "ok" THEN r ELSE Interpreter_execute_all(r.it, Tail(statements)))

\* The event of the history for a block that ran in frame env and left the
\* interpreter r.it
BlockEvent(r, previous, env) ==
  [ev |-> "block", env |-> env, previous |-> previous, kind |-> r.kind,
   after |-> r.it.environment]

\* An execute_block that puts the environment back with `?` before it:
\* only when the statements completed
Interpreter_execute_block_leaky(it, statements, env) ==
  Let(it.environment, LAMBDA previous :
      Let(Interpreter_execute_all([it EXCEPT !.environment = env], statements), LAMBDA res :
      Let(IF res.kind = "ok" THEN [res EXCEPT !.it.environment = previous] ELSE res, LAMBDA r :
   [r EXCEPT !.it.log = Append(@, BlockEvent(r, previous, env))])))

\* Interpreter::execute_block: the statements run in frame env, and the
\* environment of before is put back whatever the result
Interpreter_execute_block(it, statements, env) ==
  Let(it.environment, LAMBDA previous :
      Let(Interpreter_execute_all([it EXCEPT !.environment = env], statements), LAMBDA res :
      Let([res EXCEPT !.it.environment = previous], LAMBDA r :
   [r EXCEPT !.it.log = Append(@, BlockEvent(r, previous, env))])))

\* The zip loop of LoxFunction::call: the parameters bound to the arguments
RECURSIVE DefineParams(_, _, _, _)
DefineParams(h, e, params, arguments) ==
  IF params = <<>> \/ arguments = <<>> THEN h
  ELSE DefineParams(Environment_define(h, e, Head(params).lexeme, Head(arguments)),
                    e, Tail(params), Tail(arguments))

\* LoxFunction::call.  An initialiser returns `this` of its closure right
\* after binding the parameters; the frame of the call is then dropped and
\* takes no part in the heap.  Otherwise execute_block runs the body, a
\* Return gives the value and any other Err is returned as it is.
LoxFunction_call(it, f, arguments) ==
  Let(it.funs[f], LAMBDA fun :
      Let(Len(it.heap) + 1, LAMBDA env :
      Let(DefineParams(Append(it.heap, Environment_new_with_enclosing(fun.closure)),
                         env, fun.params, arguments), LAMBDA h1 :
  IF fun.is_initialiser
  THEN Let(Environment_get_at(it.heap, fun.closure, 0, THIS, build), LAMBDA r :
       IR(r.kind, r.v, it))
  ELSE IF it.fuel = 0 THEN IR("bound", Nil, it)
  ELSE Let([it EXCEPT !.heap = h1, !.fuel = @ - 1, !.curfn = f,
                                 !.callenv = env,
                                 !.log = Append(@, [ev |-> "body", fn |-> f, env |-> env])], LAMBDA entered :
           Let(Interpreter_execute_block(entered, fun.body, env), LAMBDA res :
           Let([res.it EXCEPT !.curfn = it.curfn, !.callenv = it.callenv], LAMBDA back :
        CASE res.kind = "return" -> IR("ok", res.v, back)
            [] res.kind = "ok" -> IR("ok", Nil, back)
            [] OTHER -> IR(res.kind, res.v, back)))))))

\* LoxCallable::arity of LoxFunction: the number of parameters as a u8
LoxFunction_arity(fun) == Len(fun.params) % 256

\* LoxCallable::arity of LoxClass
LoxClass_arity(it, c) ==
  Let(LoxClass_find_method(it.classes, c, INIT), LAMBDA init :
  IF init.some /\ init.v.t = "fun" THEN LoxFunction_arity(it.funs[init.v.n]) ELSE 0)

\* LoxClass::call: a new instance; init, when the class finds one, is bound
\* to the instance and called with the arguments; the instance is returned
LoxClass_call(it, c, arguments) ==
  Let(Len(it.insts) + 1, LAMBDA i :
      Let(Instance(i), LAMBDA instance :
      Let(LoxClass_find_method(it.classes, c, INIT), LAMBDA init :
      Let([it EXCEPT !.insts = Append(@, [class |-> c, fields |-> EmptyMap]),
                         !.log = Append(@, [ev |-> "new", inst |-> i, class |-> c,
                                            init |-> init.some])], LAMBDA made :
  IF init.some /\ init.v.t = "fun"
  THEN Let(LoxFunction_bind(made, init.v.n, instance), LAMBDA m :
           Let(LoxFunction_call(m.it, m.v.n, arguments), LAMBDA r :
        IF r.kind # "ok" THEN r ELSE IR("ok", instance, r.it)))
  ELSE IR("ok", instance, made)))))

\* The for loop of Interpreter::visit_call_expr over the arguments:
\* v is the sequence of their values
RECURSIVE Interpreter_arguments(_, _, _)
Interpreter_arguments(it, arguments, values) ==
  IF arguments = <<>> THEN IR("ok", values, it)
  ELSE Let(Interpreter_evaluate(it, Head(arguments)), LAMBDA a :
       IF a.kind # "ok" THEN a
       ELSE Interpreter_arguments(a.it, Tail(arguments), Append(values, a.v)))

\* <Clock as LoxCallable>::arity
Clock_arity == 0

\* Interpreter::visit_call_expr: only Literal::Function and Literal::Class
\* are callable
Interpreter_visit_call_expr(it, expr) ==
  Let(Interpreter_evaluate(it, expr.callee), LAMBDA callee :
  IF callee.kind # "ok" THEN callee
  ELSE
  Let(Interpreter_arguments(callee.it, expr.arguments, <<>>), LAMBDA arguments :
  IF arguments.kind # "ok" THEN arguments
  ELSE
  Let(IF callee.v.t = "fun" THEN LoxFunction_arity(arguments.it.funs[callee.v.n])
      ELSE IF callee.v.t = "class" THEN LoxClass_arity(arguments.it, callee.v.n)
      ELSE Clock_arity, LAMBDA arity :
      Let([arguments.it EXCEPT !.log = Append(@,
             [ev |-> "call", callee |-> callee.v, arity |-> arity,
              arguments |-> Len(arguments.v),
              invoked |-> callee.v.t \in {"fun", "class"}
                            /\ Len(arguments.v) = arity])], LAMBDA it1 :
  IF callee.v.t \notin {"fun", "class"}
  THEN RuntimeError(it1, expr.bracket, "Can only call functions and classes.")
  ELSE IF Len(arguments.v) # arity
  THEN RuntimeError(it1, expr.bracket,
                    "Expected " \o Text(NatChars(arity)) \o " arguments but got "
                      \o Text(NatChars(Len(arguments.v))) \o ".")
  ELSE IF callee.v.t = "fun" THEN LoxFunction_call(it1, callee.v.n, arguments.v)
  ELSE LoxClass_call(it1, callee.v.n, arguments.v)))))

\* Interpreter::visit_assign_expr
Interpreter_visit_assign_expr(it, expr) ==
  Let(Interpreter_evaluate(it, expr.value), LAMBDA value :
  IF value.kind # "ok" THEN value
  ELSE
  Let(value.it, LAMBDA it1 :
  IF expr.id \in DOMAIN it1.locals
  THEN Let(Environment_assign_at(it1.heap, it1.environment, it1.locals[expr.id],
                                      expr.name.lexeme, value.v, build), LAMBDA r :
        IR(r.kind, value.v,
             [it1 EXCEPT !.heap = r.h,
                         !.log = Append(@, LookupEvent(it1, "assign", expr.id,
                                                       expr.name.lexeme, r))]))
  ELSE Let(Environment_assign(it1.heap, Globals, expr.name.lexeme, value.v), LAMBDA r :
       Let([it1 EXCEPT !.log = Append(@,
                     LookupEvent(it1, "assign", expr.id, expr.name.lexeme,
                                 [kind |-> IF r.ok THEN "ok" ELSE "err", seen |-> {}]))], LAMBDA logged :
       IF r.ok THEN IR("ok", value.v, [logged EXCEPT !.heap = r.h])
       ELSE RuntimeError(logged, expr.name,
                         "Undefined variable '" \o Text(expr.name.lexeme) \o "'.")))))

\* Interpreter::visit_super_expr: the distance of the node, 0 when the
\* resolver recorded none; `distance - 1` is a usize subtraction
Interpreter_visit_super_expr(it, expr) ==
  Let(IF expr.id \in DOMAIN it.locals THEN it.locals[expr.id] ELSE 0, LAMBDA distance :
      Let(Environment_get_at(it.heap, it.environment, distance, SUPER, build), LAMBDA superclass :
      Let(UsizeDecrement(distance, build), LAMBDA d1 :
      Let(Environment_get_at(it.heap, it.environment, d1.d, THIS, build), LAMBDA object :
      Let(LoxClass_find_method(it.classes, superclass.v.n, expr.method.lexeme), LAMBDA method :
  IF superclass.kind # "ok" THEN IR(superclass.kind, Nil, it)
  ELSE IF superclass.v.t # "class" \/ ~d1.ok THEN IR("panic", Nil, it)
  ELSE IF object.kind # "ok" THEN IR(object.kind, Nil, it)
  ELSE IF ~method.some THEN RuntimeError(it, expr.method,
                    "Undefined property '" \o Text(expr.method.lexeme) \o "'.")
  ELSE IF method.v.t = "fun" THEN LoxFunction_bind(it, method.v.n, object.v)
  ELSE IR("panic", Nil, it))))))

\* The result r with one more event in the history of its interpreter
Logged(r, event) == [r EXCEPT !.it.log = Append(@, event)]

\* Interpreter::visit_binary_expr: both operands, then the operator
Interpreter_visit_binary_expr(it, expr) ==
  Let(Interpreter_evaluate(it, expr.left), LAMBDA left :
  IF left.kind # "ok" THEN left
  ELSE Let(Interpreter_evaluate(left.it, expr.right), LAMBDA right :
       IF right.kind # "ok" THEN right
       ELSE Let(Interpreter_binary(right.it, expr.operator, left.v, right.v), LAMBDA r :
            Logged(r, [ev |-> "binary", op |-> expr.operator.type, left |-> left.v,
                       right |-> right.v, kind |-> r.kind, v |-> r.v]))))

\* A visit_logical_expr that answers with the truth of the deciding operand
Interpreter_visit_logical_coerced(it, expr) ==
  Let(Interpreter_evaluate(it, expr.left), LAMBDA left :
  IF left.kind # "ok" THEN left
  ELSE IF (expr.operator.type = "Or") = is_truthy(left.v)
  THEN Logged(IR("ok", Boolean(is_truthy(left.v)), left.it),
              [ev |-> "logical", op |-> expr.operator.type, left |-> left.v,
               right |-> FALSE, kind |-> "ok", v |-> Boolean(is_truthy(left.v))])
  ELSE Let(Interpreter_evaluate(left.it, expr.right), LAMBDA right :
       Logged(right, [ev |-> "logical", op |-> expr.operator.type, left |-> left.v,
                      right |-> TRUE, kind |-> right.kind, v |-> right.v])))

\* Interpreter::visit_logical_expr: the left operand decides, or the right
\* operand is evaluated and is the result
Interpreter_visit_logical_expr(it, expr) ==
  Let(Interpreter_evaluate(it, expr.left), LAMBDA left :
  IF left.kind # "ok" THEN left
  ELSE IF (expr.operator.type = "Or") = is_truthy(left.v)
  THEN Logged(left, [ev |-> "logical", op |-> expr.operator.type, left |-> left.v,
                     right |-> FALSE, kind |-> "ok", v |-> left.v])
  ELSE Let(Interpreter_evaluate(left.it, expr.right), LAMBDA right :
       Logged(right, [ev |-> "logical", op |-> expr.operator.type, left |-> left.v,
                      right |-> TRUE, kind |-> right.kind, v |-> right.v])))

\* Expr::accept with the Interpreter as the visitor
Interpreter_evaluate(it, expr) ==
  CASE expr.k = "Assign" -> Interpreter_visit_assign_expr(it, expr)
    [] expr.k = "Binary" -> Interpreter_visit_binary_expr(it, expr)
    [] expr.k = "Call" -> Interpreter_visit_call_expr(it, expr)
    [] expr.k = "Get" ->
         Let(Interpreter_evaluate(it, expr.object), LAMBDA object :
         IF object.kind # "ok" THEN object
         ELSE IF object.v.t = "inst" THEN LoxInstance_get(object.it, object.v.n, expr.name)
         ELSE RuntimeError(object.it, expr.name, "Only instances have properties."))
    [] expr.k = "Grouping" -> Interpreter_evaluate(it, expr.expression)
    [] expr.k = "Literal" ->
         IF expr.value = NoLiteral THEN IR("panic", Nil, it) ELSE IR("ok", expr.value, it)
    [] expr.k = "Logical" -> Interpreter_visit_logical_expr(it, expr)
    [] expr.k = "Set" ->
         Let(Interpreter_evaluate(it, expr.object), LAMBDA object :
         IF object.kind # "ok" THEN object
         ELSE IF object.v.t # "inst"
         THEN RuntimeError(object.it, expr.name, "Only instances have fields.")
         ELSE Let(Interpreter_evaluate(object.it, expr.value), LAMBDA value :
              IF value.kind # "ok" THEN value
              ELSE IR("ok", value.v,
                      LoxInstance_set(value.it, object.v.n, expr.name, value.v))))
    [] expr.k = "Super" -> Interpreter_visit_super_expr(it, expr)
    [] expr.k = "This" -> Interpreter_look_up_variable(it, expr.keyword, expr.id)
    [] expr.k = "Unary" ->
         Let(Interpreter_evaluate(it, expr.right), LAMBDA right :
         IF right.kind # "ok" THEN right
         ELSE IF expr.operator.type = "Bang"
         THEN IR("ok", Boolean(~is_truthy(right.v)), right.it)
         ELSE IF expr.operator.type # "Minus"
         THEN RuntimeError(right.it, expr.operator, "INTERPRETER INTERNAL ERROR.")
         ELSE IF right.v.t # "num"
         THEN RuntimeError(right.it, expr.operator, "Operand must be a number.")
         ELSE IF right.v.s # <<>> THEN IR("bound", Nil, right.it)
         ELSE IR("ok", Number(0 - right.v.n), right.it))
    [] expr.k = "Variable" -> Interpreter_look_up_variable(it, expr.name, expr.id)

\* The method loop of Interpreter::visit_class_stmt: a LoxFunction per
\* method, closing over the current environment
RECURSIVE Interpreter_methods(_, _, _)
Interpreter_methods(it, methods, table) ==
  IF methods = <<>> THEN [it |-> it, methods |-> table]
  ELSE Let(Head(methods), LAMBDA m :
           Let([LoxFunction_new(it.environment, m, m.name.lexeme = INIT)
                          EXCEPT !.declared = "method",
                                 !.captured = Captured(it.heap, it.environment)], LAMBDA function :
        Interpreter_methods([it EXCEPT !.funs = Append(@, function)], Tail(methods),
                              MapInsert(table, m.name.lexeme, Function(Len(it.funs) + 1)))))

\* Interpreter::visit_class_stmt
Interpreter_visit_class_stmt(it, stmt) ==
  Let(IF stmt.superclass = NoNode THEN IR("ok", Nil, it)
                    ELSE Interpreter_evaluate(it, stmt.superclass), LAMBDA superclass :
  IF superclass.kind # "ok" THEN superclass
  ELSE IF stmt.superclass # NoNode /\ superclass.v.t # "class"
  THEN RuntimeError(superclass.it, stmt.superclass.name, "Superclass must be a class.")
  ELSE
  Let(superclass.it, LAMBDA it1 :
      Let(it1.environment, LAMBDA enclosing :
      Let(Environment_define(it1.heap, enclosing, stmt.name.lexeme, Nil), LAMBDA h1 :
      Let(Len(h1) + 1, LAMBDA env :
      Let(IF stmt.superclass = NoNode THEN [it1 EXCEPT !.heap = h1]
             ELSE [it1 EXCEPT
                     !.heap = Environment_define(
                                Append(h1, Environment_new_with_enclosing(enclosing)),
                                env, SUPER, superclass.v),
                     !.environment = env], LAMBDA it2 :
      Let(Interpreter_methods(it2, stmt.methods, EmptyMap), LAMBDA ms :
      Let([name |-> stmt.name.lexeme,
                superclass |-> IF stmt.superclass = NoNode THEN 0 ELSE superclass.v.n,
                methods |-> ms.methods], LAMBDA class :
      Let([ms.it EXCEPT !.classes = Append(@, class), !.environment = enclosing], LAMBDA it3 :
      Let(Environment_assign(it3.heap, it3.environment, stmt.name.lexeme,
                              Class(Len(it3.classes))), LAMBDA r :
  IF r.ok THEN IR("ok", Nil, [it3 EXCEPT !.heap = r.h])
  ELSE RuntimeError(it3, stmt.name,
                    "Undefined variable '" \o Text(stmt.name.lexeme) \o "'.")))))))))))

\* Interpreter::visit_function_stmt
Interpreter_visit_function_stmt(it, stmt) ==
  Let(Len(it.funs) + 1, LAMBDA f :
      Let(Environment_define(it.heap, it.environment, stmt.name.lexeme, Function(f)), LAMBDA h1 :
      Let([LoxFunction_new(it.environment, stmt, FALSE)
                     EXCEPT !.declared = "fun",
                            !.captured = Captured(h1, it.environment)], LAMBDA function :
   IR("ok", Nil, [it EXCEPT !.heap = h1, !.funs = Append(@, function)]))))

\* Interpreter::visit_while_stmt: a Break of the body ends the loop, any
\* other Err is returned
RECURSIVE Interpreter_visit_while_stmt(_, _)
Interpreter_visit_while_stmt(it, stmt) ==
  Let(Interpreter_evaluate(it, stmt.condition), LAMBDA condition :
  IF condition.kind # "ok" THEN condition
  ELSE IF ~is_truthy(condition.v) THEN IR("ok", Nil, condition.it)
  ELSE IF condition.it.fuel = 0 THEN IR("bound", Nil, condition.it)
  ELSE Let(Interpreter_execute([condition.it EXCEPT !.fuel = @ - 1], stmt.body), LAMBDA body :
       IF body.kind = "break" THEN IR("ok", Nil, body.it)
       ELSE IF body.kind # "ok" THEN body
       ELSE Interpreter_visit_while_stmt(body.it, stmt)))

\* Stmt::accept with the Interpreter as the visitor
Interpreter_execute(it, stmt) ==
  CASE stmt.k = "Block" ->
         Interpreter_execute_block(
           [it EXCEPT !.heap = Append(@, Environment_new_with_enclosing(it.environment))],
           stmt.statements, Len(it.heap) + 1)
    [] stmt.k = "Break" -> IR("break", Nil, it)
    [] stmt.k = "Class" -> Interpreter_visit_class_stmt(it, stmt)
    [] stmt.k = "Expression" ->
         Let(Interpreter_evaluate(it, stmt.expression), LAMBDA r :
         IF r.kind # "ok" THEN r ELSE IR("ok", Nil, r.it))
    [] stmt.k = "Function" -> Interpreter_visit_function_stmt(it, stmt)
    [] stmt.k = "If" ->
         Let(Interpreter_evaluate(it, stmt.condition), LAMBDA condition :
         IF condition.kind # "ok" THEN condition
         ELSE IF is_truthy(condition.v)
         THEN Interpreter_execute(condition.it, stmt.then_branch)
         ELSE IF stmt.else_branch # NoNode
         THEN Interpreter_execute(condition.it, stmt.else_branch)
         ELSE IR("ok", Nil, condition.it))
    [] stmt.k = "Print" ->
         Let(Interpreter_evaluate(it, stmt.expression), LAMBDA r :
         IF r.kind # "ok" THEN r
         ELSE IR("ok", Nil, [r.it EXCEPT !.printed = Append(@, r.v)]))
    [] stmt.k = "Return" ->
         IF stmt.value = NoNode THEN IR("return", Nil, it)
         ELSE Let(Interpreter_evaluate(it, stmt.value), LAMBDA r :
              IF r.kind # "ok" THEN r ELSE IR("return", r.v, r.it))
    [] stmt.k = "Var" ->
         Let(IF stmt.initialiser = NoNode THEN IR("ok", Nil, it)
                      ELSE Interpreter_evaluate(it, stmt.initialiser), LAMBDA value :
          IF value.kind # "ok" THEN value
            ELSE IR("ok", Nil,
                    [value.it EXCEPT !.heap = Environment_define(
                       @, value.it.environment, stmt.name.lexeme, value.v)]))
    [] stmt.k = "While" -> Interpreter_visit_while_stmt(it, stmt)

\* Interpreter::interpret
Interpreter_interpret(it, statements) == Interpreter_execute_all(it, statements)

--------------------------------------------------------------------------
(* The machine Spec: the prompt loop of Lox (lox.rs).  Lox::run_prompt     *)
(* reads a line and gives it to Lox::run, which scans, parses, resolves    *)
(* and interprets it on the one Interpreter of the session; each of these  *)
(* calls is a step, and Interpreter::interpret takes a step per statement. *)

\* The lines given to Lox::run in one session
MaxRuns == 2

\* The lines a session draws from.
\* var a = 1;
SrcVar ==
  <<"v", "a", "r", " ", "a", " ", "=", " ", "1", ";">>

\* { fun show() { return a; } print show(); var a = 2; print show(); }
SrcShow ==
  <<"{", " ", "f", "u", "n", " ", "s", "h", "o", "w", "(", ")", " ", "{", " ", "r",
    "e", "t", "u", "r", "n", " ", "a", ";", " ", "}", " ", "p", "r", "i", "n", "t",
    " ", "s", "h", "o", "w", "(", ")", ";", " ", "v", "a", "r", " ", "a", " ", "=",
    " ", "2", ";", " ", "p", "r", "i", "n", "t", " ", "s", "h", "o", "w", "(", ")",
    ";", " ", "}">>

\* var g; while (true) { fun f() { break; } g = f; break; } g();
SrcBreak ==
  <<"v", "a", "r", " ", "g", ";", " ", "w", "h", "i", "l", "e", " ", "(", "t", "r",
    "u", "e", ")", " ", "{", " ", "f", "u", "n", " ", "f", "(", ")", " ", "{", " ",
    "b", "r", "e", "a", "k", ";", " ", "}", " ", "g", " ", "=", " ", "f", ";", " ",
    "b", "r", "e", "a", "k", ";", " ", "}", " ", "g", "(", ")", ";">>

\* class A { init(n) { this.n = n; print n; } } var o = A(7); print o.n;
SrcInit ==
  <<"c", "l", "a", "s", "s", " ", "A", " ", "{", " ", "i", "n", "i", "t", "(", "n",
    ")", " ", "{", " ", "t", "h", "i", "s", ".", "n", " ", "=", " ", "n", ";", " ",
    "p", "r", "i", "n", "t", " ", "n", ";", " ", "}", " ", "}", " ", "v", "a", "r",
    " ", "o", " ", "=", " ", "A", "(", "7", ")", ";", " ", "p", "r", "i", "n", "t",
    " ", "o", ".", "n", ";">>

\* class P { m() { return this; } } var p = P(); p.x = 1; print p.x; print p.m; print p.y;
SrcGet ==
  <<"c", "l", "a", "s", "s", " ", "P", " ", "{", " ", "m", "(", ")", " ", "{", " ",
    "r", "e", "t", "u", "r", "n", " ", "t", "h", "i", "s", ";", " ", "}", " ", "}",
    " ", "v", "a", "r", " ", "p", " ", "=", " ", "P", "(", ")", ";", " ", "p", ".",
    "x", " ", "=", " ", "1", ";", " ", "p", "r", "i", "n", "t", " ", "p", ".", "x",
    ";", " ", "p", "r", "i", "n", "t", " ", "p", ".", "m", ";", " ", "p", "r", "i",
    "n", "t", " ", "p", ".", "y", ";">>

\* class Q { m() { return this; } } print Q().m();
SrcThis ==
  <<"c", "l", "a", "s", "s", " ", "Q", " ", "{", " ", "m", "(", ")", " ", "{", " ",
    "r", "e", "t", "u", "r", "n", " ", "t", "h", "i", "s", ";", " ", "}", " ", "}",
    " ", "p", "r", "i", "n", "t", " ", "Q", "(", ")", ".", "m", "(", ")", ";">>

\* var x = "g"; { var x = "l"; class C { m() { fun f() { return x; } return f(); } } print C().m(); }
SrcMethodClosure ==
  <<"v", "a", "r", " ", "x", " ", "=", " ", "\"", "g", "\"", ";", " ", "{", " ", "v",
    "a", "r", " ", "x", " ", "=", " ", "\"", "l", "\"", ";", " ", "c", "l", "a", "s",
    "s", " ", "C", " ", "{", " ", "m", "(", ")", " ", "{", " ", "f", "u", "n", " ",
    "f", "(", ")", " ", "{", " ", "r", "e", "t", "u", "r", "n", " ", "x", ";", " ",
    "}", " ", "r", "e", "t", "u", "r", "n", " ", "f", "(", ")", ";", " ", "}", " ",
    "}", " ", "p", "r", "i", "n", "t", " ", "C", "(", ")", ".", "m", "(", ")", ";",
    " ", "}">>

\* class D { m() { return 1; } } class E < D { n() { return super.m(); } } print E().n();
SrcSuper ==
  <<"c", "l", "a", "s", "s", " ", "D", " ", "{", " ", "m", "(", ")", " ", "{", " ",
    "r", "e", "t", "u", "r", "n", " ", "1", ";", " ", "}", " ", "}", " ", "c", "l",
    "a", "s", "s", " ", "E", " ", "<", " ", "D", " ", "{", " ", "n", "(", ")", " ",
    "{", " ", "r", "e", "t", "u", "r", "n", " ", "s", "u", "p", "e", "r", ".", "m",
    "(", ")", ";", " ", "}", " ", "}", " ", "p", "r", "i", "n", "t", " ", "E", "(",
    ")", ".", "n", "(", ")", ";">>

\* for (var i = 0; i < 2; i = i + 1) print i;
SrcFor ==
  <<"f", "o", "r", " ", "(", "v", "a", "r", " ", "i", " ", "=", " ", "0", ";", " ",
    "i", " ", "<", " ", "2", ";", " ", "i", " ", "=", " ", "i", " ", "+", " ", "1",
    ")", " ", "p", "r", "i", "n", "t", " ", "i", ";">>

\* fun h(n) { if (n < 1) return 0; return n + h(n - 1); } print h(2);
SrcRecursion ==
  <<"f", "u", "n", " ", "h", "(", "n", ")", " ", "{", " ", "i", "f", " ", "(", "n",
    " ", "<", " ", "1", ")", " ", "r", "e", "t", "u", "r", "n", " ", "0", ";", " ",
    "r", "e", "t", "u", "r", "n", " ", "n", " ", "+", " ", "h", "(", "n", " ", "-",
    " ", "1", ")", ";", " ", "}", " ", "p", "r", "i", "n", "t", " ", "h", "(", "2",
    ")", ";">>

\* print 1; #
SrcScanError ==
  <<"p", "r", "i", "n", "t", " ", "1", ";", " ", "#">>

\* var a = 2; var = 3;
SrcParseError ==
  <<"v", "a", "r", " ", "a", " ", "=", " ", "2", ";", " ", "v", "a", "r", " ", "=",
    " ", "3", ";">>

\* print 2; return 3;
SrcResolveError ==
  <<"p", "r", "i", "n", "t", " ", "2", ";", " ", "r", "e", "t", "u", "r", "n", " ",
    "3", ";">>

\* a = 3; 1 = 2;
SrcInvalidTarget ==
  <<"a", " ", "=", " ", "3", ";", " ", "1", " ", "=", " ", "2", ";">>

\* print 4; break;
SrcBreakOutside ==
  <<"p", "r", "i", "n", "t", " ", "4", ";", " ", "b", "r", "e", "a", "k", ";">>

\* var a = 5; { var b = b; }
SrcSelfInit ==
  <<"v", "a", "r", " ", "a", " ", "=", " ", "5", ";", " ", "{", " ", "v", "a", "r",
    " ", "b", " ", "=", " ", "b", ";", " ", "}">>

\*  @
SrcAt ==
  <<" ", "@", " ">>

\* !
SrcBang ==
  <<"!">>

\* fun f() {} print 1 == 1; print "a" != 1; print nil == false; print f == f;
SrcEquality ==
  <<"f", "u", "n", " ", "f", "(", ")", " ", "{", "}", " ", "p", "r", "i", "n", "t",
    " ", "1", " ", "=", "=", " ", "1", ";", " ", "p", "r", "i", "n", "t", " ",
    "\"", "a", "\"", " ", "!", "=", " ", "1", ";", " ", "p", "r", "i", "n", "t",
    " ", "n", "i", "l", " ", "=", "=", " ", "f", "a", "l", "s", "e", ";", " ", "p",
    "r", "i", "n", "t", " ", "f", " ", "=", "=", " ", "f", ";">>

\* print 1 + 2; print "a" + "b"; print "a" + 1; print 2 + "b"; print "a" + nil;
SrcPlus ==
  <<"p", "r", "i", "n", "t", " ", "1", " ", "+", " ", "2", ";", " ", "p", "r", "i",
    "n", "t", " ", "\"", "a", "\"", " ", "+", " ", "\"", "b", "\"", ";", " ", "p",
    "r", "i", "n", "t", " ", "\"", "a", "\"", " ", "+", " ", "1", ";", " ", "p",
    "r", "i", "n", "t", " ", "2", " ", "+", " ", "\"", "b", "\"", ";", " ", "p",
    "r", "i", "n", "t", " ", "\"", "a", "\"", " ", "+", " ", "n", "i", "l", ";">>

\* print nil or 2; print 1 or x; print false and x; print 1 and "s"; print nil and 1;
SrcLogical ==
  <<"p", "r", "i", "n", "t", " ", "n", "i", "l", " ", "o", "r", " ", "2", ";", " ",
    "p", "r", "i", "n", "t", " ", "1", " ", "o", "r", " ", "x", ";", " ", "p", "r",
    "i", "n", "t", " ", "f", "a", "l", "s", "e", " ", "a", "n", "d", " ", "x", ";",
    " ", "p", "r", "i", "n", "t", " ", "1", " ", "a", "n", "d", " ", "\"", "s",
    "\"", ";", " ", "p", "r", "i", "n", "t", " ", "n", "i", "l", " ", "a", "n",
    "d", " ", "1", ";">>

\* fun f(a) {} class A {} f(1); A(); clock();
SrcClock ==
  <<"f", "u", "n", " ", "f", "(", "a", ")", " ", "{", "}", " ", "c", "l", "a", "s",
    "s", " ", "A", " ", "{", "}", " ", "f", "(", "1", ")", ";", " ", "A", "(", ")",
    ";", " ", "c", "l", "o", "c", "k", "(", ")", ";">>

\* fun f(a) {} f();
SrcArity ==
  <<"f", "u", "n", " ", "f", "(", "a", ")", " ", "{", "}", " ", "f", "(", ")", ";">>

\* if (true) return; fun f() { return 1; }
SrcReturnTop ==
  <<"i", "f", " ", "(", "t", "r", "u", "e", ")", " ", "r", "e", "t", "u", "r", "n",
    ";", " ", "f", "u", "n", " ", "f", "(", ")", " ", "{", " ", "r", "e", "t", "u",
    "r", "n", " ", "1", ";", " ", "}">>

\* fun f(a, a) {} return;
SrcReturnAfter ==
  <<"f", "u", "n", " ", "f", "(", "a", ",", " ", "a", ")", " ", "{", "}", " ", "r",
    "e", "t", "u", "r", "n", ";">>

\* class A { m() { super.m; } } super.m;
SrcSuperOutside ==
  <<"c", "l", "a", "s", "s", " ", "A", " ", "{", " ", "m", "(", ")", " ", "{", " ",
    "s", "u", "p", "e", "r", ".", "m", ";", " ", "}", " ", "}", " ", "s", "u", "p",
    "e", "r", ".", "m", ";">>

\* { var a = a; } var b = b;
SrcSelfAfter ==
  <<"{", " ", "v", "a", "r", " ", "a", " ", "=", " ", "a", ";", " ", "}", " ", "v",
    "a", "r", " ", "b", " ", "=", " ", "b", ";">>

\* var c = 1; var c = c;
SrcGlobalSelf ==
  <<"v", "a", "r", " ", "c", " ", "=", " ", "1", ";", " ", "v", "a", "r", " ", "c",
    " ", "=", " ", "c", ";">>

\* { var a; var a; } var b; var b;
SrcDuplicateAfter ==
  <<"{", " ", "v", "a", "r", " ", "a", ";", " ", "v", "a", "r", " ", "a", ";", " ",
    "}", " ", "v", "a", "r", " ", "b", ";", " ", "v", "a", "r", " ", "b", ";">>

\* var = 1; x = ;
SrcTwoErrors ==
  <<"v", "a", "r", " ", "=", " ", "1", ";", " ", "x", " ", "=", " ", ";">>

\* { var = 1; } x = ;
SrcBlockError ==
  <<"{", " ", "v", "a", "r", " ", "=", " ", "1", ";", " ", "}", " ", "x", " ", "=",
    " ", ";">>

\* print 1; # print 2; #
SrcTwoChars ==
  <<"p", "r", "i", "n", "t", " ", "1", ";", " ", "#", " ", "p", "r", "i", "n", "t",
    " ", "2", ";", " ", "#">>

\* return; { var a = a; }
SrcTwoViolations ==
  <<"r", "e", "t", "u", "r", "n", ";", " ", "{", " ", "v", "a", "r", " ", "a", " ",
    "=", " ", "a", ";", " ", "}">>

\* print /* a /* b */ c */ 1; /* d */
SrcComment ==
  <<"p", "r", "i", "n", "t", " ", "/", "*", " ", "a", " ", "/", "*", " ", "b", " ",
    "*", "/", " ", "c", " ", "*", "/", " ", "1", ";", " ", "/", "*", " ", "d", " ",
    "*", "/">>

\* print 1; /* c
SrcUnterminated ==
  <<"p", "r", "i", "n", "t", " ", "1", ";", " ", "/", "*", " ", "c">>

\* print 1; /**/ print 2;
SrcEmptyComment ==
  <<"p", "r", "i", "n", "t", " ", "1", ";", " ", "/", "*", "*", "/", " ", "p", "r",
    "i", "n", "t", " ", "2", ";">>

\* fun f() { return 1; } f(); while (true) { break; } { print x; }
SrcExits ==
  <<"f", "u", "n", " ", "f", "(", ")", " ", "{", " ", "r", "e", "t", "u", "r", "n",
    " ", "1", ";", " ", "}", " ", "f", "(", ")", ";", " ", "w", "h", "i", "l", "e",
    " ", "(", "t", "r", "u", "e", ")", " ", "{", " ", "b", "r", "e", "a", "k", ";",
    " ", "}", " ", "{", " ", "p", "r", "i", "n", "t", " ", "x", ";", " ", "}">>

\* 1 = 2; print 3; (a) = 4;
SrcTargetThen ==
  <<"1", " ", "=", " ", "2", ";", " ", "p", "r", "i", "n", "t", " ", "3", ";", " ",
    "(", "a", ")", " ", "=", " ", "4", ";">>

\* f(1,1,1,1,1,1,1,1,1,1,1,1,1,1,1,1,1,1,1,1,1,1,1,1,1,1,1,1,1,1,1,1,1,1,1,1,1,1,1,1,1,1,1,1,1,1,1,1,1,1,1,1,1,1,1,1,1,1,1,1,1,1,1,1,1,1,1,1,1,1,1,1,1,1,1,1,1,1,1,1,1,1,1,1,1,1,1,1,1,1,1,1,1,1,1,1,1,1,1,1,1,1,1,1,1,1,1,1,1,1,1,1,1,1,1,1,1,1,1,1,1,1,1,1,1,1,1,1,1,1,1,1,1,1,1,1,1,1,1,1,1,1,1,1,1,1,1,1,1,1,1,1,1,1,1,1,1,1,1,1,1,1,1,1,1,1,1,1,1,1,1,1,1,1,1,1,1,1,1,1,1,1,1,1,1,1,1,1,1,1,1,1,1,1,1,1,1,1,1,1,1,1,1,1,1,1,1,1,1,1,1,1,1,1,1,1,1,1,1,1,1,1,1,1,1,1,1,1,1,1,1,1,1,1,1,1,1,1,1,1,1,1,1,1,1,1,1,1,1,1,1,1,1,1,1,1); 2 = 3;
SrcManyArguments ==
  <<"f", "(", "1", ",", "1", ",", "1", ",", "1", ",", "1", ",", "1", ",", "1", ",",
    "1", ",", "1", ",", "1", ",", "1", ",", "1", ",", "1", ",", "1", ",", "1", ",",
    "1", ",", "1", ",", "1", ",", "1", ",", "1", ",", "1", ",", "1", ",", "1", ",",
    "1", ",", "1", ",", "1", ",", "1", ",", "1", ",", "1", ",", "1", ",", "1", ",",
    "1", ",", "1", ",", "1", ",", "1", ",", "1", ",", "1", ",", "1", ",", "1", ",",
    "1", ",", "1", ",", "1", ",", "1", ",", "1", ",", "1", ",", "1", ",", "1", ",",
    "1", ",", "1", ",", "1", ",", "1", ",", "1", ",", "1", ",", "1", ",", "1", ",",
    "1", ",", "1", ",", "1", ",", "1", ",", "1", ",", "1", ",", "1", ",", "1", ",",
    "1", ",", "1", ",", "1", ",", "1", ",", "1", ",", "1", ",", "1", ",", "1", ",",
    "1", ",", "1", ",", "1", ",", "1", ",", "1", ",", "1", ",", "1", ",", "1", ",",
    "1", ",", "1", ",", "1", ",", "1", ",", "1", ",", "1", ",", "1", ",", "1", ",",
    "1", ",", "1", ",", "1", ",", "1", ",", "1", ",", "1", ",", "1", ",", "1", ",",
    "1", ",", "1", ",", "1", ",", "1", ",", "1", ",", "1", ",", "1", ",", "1", ",",
    "1", ",", "1", ",", "1", ",", "1", ",", "1", ",", "1", ",", "1", ",", "1", ",",
    "1", ",", "1", ",", "1", ",", "1", ",", "1", ",", "1", ",", "1", ",", "1", ",",
    "1", ",", "1", ",", "1", ",", "1", ",", "1", ",", "1", ",", "1", ",", "1", ",",
    "1", ",", "1", ",", "1", ",", "1", ",", "1", ",", "1", ",", "1", ",", "1", ",",
    "1", ",", "1", ",", "1", ",", "1", ",", "1", ",", "1", ",", "1", ",", "1", ",",
    "1", ",", "1", ",", "1", ",", "1", ",", "1", ",", "1", ",", "1", ",", "1", ",",
    "1", ",", "1", ",", "1", ",", "1", ",", "1", ",", "1", ",", "1", ",", "1", ",",
    "1", ",", "1", ",", "1", ",", "1", ",", "1", ",", "1", ",", "1", ",", "1", ",",
    "1", ",", "1", ",", "1", ",", "1", ",", "1", ",", "1", ",", "1", ",", "1", ",",
    "1", ",", "1", ",", "1", ",", "1", ",", "1", ",", "1", ",", "1", ",", "1", ",",
    "1", ",", "1", ",", "1", ",", "1", ",", "1", ",", "1", ",", "1", ",", "1", ",",
    "1", ",", "1", ",", "1", ",", "1", ",", "1", ",", "1", ",", "1", ",", "1", ",",
    "1", ",", "1", ",", "1", ",", "1", ",", "1", ",", "1", ",", "1", ",", "1", ",",
    "1", ",", "1", ",", "1", ",", "1", ",", "1", ",", "1", ",", "1", ",", "1", ",",
    "1", ",", "1", ",", "1", ",", "1", ",", "1", ",", "1", ",", "1", ",", "1", ",",
    "1", ",", "1", ",", "1", ",", "1", ",", "1", ",", "1", ",", "1", ",", "1", ",",
    "1", ",", "1", ",", "1", ",", "1", ",", "1", ",", "1", ",", "1", ",", "1", ",",
    "1", ",", "1", ",", "1", ",", "1", ",", "1", ",", "1", ",", "1", ",", "1", ",",
    "1", ",", "1", ",", "1", ",", "1", ",", "1", ",", "1", ",", "1", ",", "1", ",",
    "1", ")", ";", " ", "2", " ", "=", " ", "3", ";">>

\* while (true) print ; break; for (;;) { break; } while (false) { fun f() { break; } }
SrcBreaks ==
  <<"w", "h", "i", "l", "e", " ", "(", "t", "r", "u", "e", ")", " ", "p", "r", "i",
    "n", "t", " ", ";", " ", "b", "r", "e", "a", "k", ";", " ", "f", "o", "r", " ",
    "(", ";", ";", ")", " ", "{", " ", "b", "r", "e", "a", "k", ";", " ", "}", " ",
    "w", "h", "i", "l", "e", " ", "(", "f", "a", "l", "s", "e", ")", " ", "{", " ",
    "f", "u", "n", " ", "f", "(", ")", " ", "{", " ", "b", "r", "e", "a", "k", ";",
    " ", "}", " ", "}">>

\* var i = 7; for (var i = 0; i < 3; i = i + 1) { if (i == 2) break; print i; } print i;
SrcForScope ==
  <<"v", "a", "r", " ", "i", " ", "=", " ", "7", ";", " ", "f", "o", "r", " ", "(",
    "v", "a", "r", " ", "i", " ", "=", " ", "0", ";", " ", "i", " ", "<", " ", "3",
    ";", " ", "i", " ", "=", " ", "i", " ", "+", " ", "1", ")", " ", "{", " ", "i",
    "f", " ", "(", "i", " ", "=", "=", " ", "2", ")", " ", "b", "r", "e", "a", "k",
    ";", " ", "p", "r", "i", "n", "t", " ", "i", ";", " ", "}", " ", "p", "r", "i",
    "n", "t", " ", "i", ";">>

\* var k = 5; for (k = 0; k < 3; k = k + 1) { for (;;) { break; } if (k == 1) break; print k; } print k;
SrcForNested ==
  <<"v", "a", "r", " ", "k", " ", "=", " ", "5", ";", " ", "f", "o", "r", " ", "(",
    "k", " ", "=", " ", "0", ";", " ", "k", " ", "<", " ", "3", ";", " ", "k", " ",
    "=", " ", "k", " ", "+", " ", "1", ")", " ", "{", " ", "f", "o", "r", " ", "(",
    ";", ";", ")", " ", "{", " ", "b", "r", "e", "a", "k", ";", " ", "}", " ", "i",
    "f", " ", "(", "k", " ", "=", "=", " ", "1", ")", " ", "b", "r", "e", "a", "k",
    ";", " ", "p", "r", "i", "n", "t", " ", "k", ";", " ", "}", " ", "p", "r", "i",
    "n", "t", " ", "k", ";">>

\* var i = 7; { var i = 0; while (i < 3) { { if (i == 2) break; print i; } i = i + 1; } } print i;
LoweredForScope ==
  <<"v", "a", "r", " ", "i", " ", "=", " ", "7", ";", " ", "{", " ", "v", "a", "r",
    " ", "i", " ", "=", " ", "0", ";", " ", "w", "h", "i", "l", "e", " ", "(", "i",
    " ", "<", " ", "3", ")", " ", "{", " ", "{", " ", "i", "f", " ", "(", "i", " ",
    "=", "=", " ", "2", ")", " ", "b", "r", "e", "a", "k", ";", " ", "p", "r", "i",
    "n", "t", " ", "i", ";", " ", "}", " ", "i", " ", "=", " ", "i", " ", "+", " ",
    "1", ";", " ", "}", " ", "}", " ", "p", "r", "i", "n", "t", " ", "i", ";">>

\* var k = 5; { k = 0; while (k < 3) { { while (true) { break; } if (k == 1) break; print k; } k = k + 1; } } print k;
LoweredForNested ==
  <<"v", "a", "r", " ", "k", " ", "=", " ", "5", ";", " ", "{", " ", "k", " ", "=",
    " ", "0", ";", " ", "w", "h", "i", "l", "e", " ", "(", "k", " ", "<", " ", "3",
    ")", " ", "{", " ", "{", " ", "w", "h", "i", "l", "e", " ", "(", "t", "r", "u",
    "e", ")", " ", "{", " ", "b", "r", "e", "a", "k", ";", " ", "}", " ", "i", "f",
    " ", "(", "k", " ", "=", "=", " ", "1", ")", " ", "b", "r", "e", "a", "k", ";",
    " ", "p", "r", "i", "n", "t", " ", "k", ";", " ", "}", " ", "k", " ", "=", " ",
    "k", " ", "+", " ", "1", ";", " ", "}", " ", "}", " ", "p", "r", "i", "n", "t",
    " ", "k", ";">>

\* print 1 - 2 - 3; print 8 / 4 * 2; print 1 - 2 + 3;
SrcAssociative ==
  <<"p", "r", "i", "n", "t", " ", "1", " ", "-", " ", "2", " ", "-", " ", "3", ";",
    " ", "p", "r", "i", "n", "t", " ", "8", " ", "/", " ", "4", " ", "*", " ", "2",
    ";", " ", "p", "r", "i", "n", "t", " ", "1", " ", "-", " ", "2", " ", "+", " ",
    "3", ";">>

\* // nothing to run
SrcNote ==
  <<"/", "/", " ", "n", "o", "t", "h", "i", "n", "g", " ", "t", "o", " ", "r", "u",
    "n">>

\* print 1; var = 2; print 3
SrcNoSemicolon ==
  <<"p", "r", "i", "n", "t", " ", "1", ";", " ", "v", "a", "r", " ", "=", " ", "2",
    ";", " ", "p", "r", "i", "n", "t", " ", "3">>

Sources ==
  {SrcVar, SrcShow, SrcBreak, SrcInit, SrcGet,
   SrcThis, SrcMethodClosure, SrcSuper, SrcFor, SrcRecursion,
   SrcScanError, SrcParseError, SrcResolveError, SrcInvalidTarget, SrcBreakOutside,
   SrcSelfInit, SrcAt, SrcBang, SrcEquality, SrcPlus, SrcLogical, SrcClock, SrcArity,
   SrcReturnTop, SrcReturnAfter, SrcSuperOutside, SrcSelfAfter, SrcGlobalSelf,
   SrcDuplicateAfter, SrcTwoErrors, SrcBlockError, SrcTwoChars, SrcTwoViolations,
   SrcComment, SrcUnterminated, SrcEmptyComment, SrcExits, SrcTargetThen,
   SrcManyArguments, SrcBreaks, SrcForScope, SrcForNested, SrcAssociative, SrcNote,
   SrcNoSemicolon}

\* str::trim
RECURSIVE Trim(_)
Trim(cs) ==
  Let({" ", "\t", "\n", "\r"}, LAMBDA White :
  IF cs # <<>> /\ Head(cs) \in White THEN Trim(Tail(cs))
  ELSE IF cs # <<>> /\ cs[Len(cs)] \in White THEN Trim(SubSeq(cs, 1, Len(cs) - 1))
  ELSE cs)

\* Lox::new
Init ==
  /\ build \in Builds
  /\ heap = <<>>
  /\ last = NoOp
  /\ pc = "prompt"
  /\ runs = 0
  /\ input = <<>>
  /\ toks = <<>>
  /\ stmts = <<>>
  /\ todo = <<>>
  /\ interp = Interpreter_new
  /\ stderr = <<>>
  /\ result = "none"
  /\ before = Interpreter_new
  /\ executed = 0

\* Lox::run returns r to run_prompt, which reads the next line
Returns(r) ==
  /\ result' = r
  /\ pc' = "prompt"

\* run_prompt reads a line and calls Lox::run: "!" exits the process, "@"
\* prints the environment, any other line goes to the scanner
ReadLine ==
  \E line \in Sources :
    /\ pc = "prompt"
    /\ runs < MaxRuns
    /\ runs' = runs + 1
    /\ input' = line
    /\ stderr' = <<>>
    /\ executed' = 0
    /\ interp' = [interp EXCEPT !.log = <<>>, !.fuel = MaxFuel]
    /\ before' = interp'
    /\ CASE Trim(line) = <<"!">> -> /\ pc' = "exited"
                                    /\ result' = "none"
         [] Trim(line) = <<"@">> -> Returns("Ok")
         [] OTHER -> /\ pc' = "scan"
                     /\ result' = "none"
    /\ UNCHANGED <<build, envVars, toks, stmts, todo>>

\* scanner.scan_tokens()?
ScanTokens ==
  /\ pc = "scan"
  /\ \E r \in {Scanner_scan_tokens(Scanner_new(input))} :
       /\ toks' = r.tokens
       /\ IF r.ok THEN /\ pc' = "parse"
                       /\ UNCHANGED <<stderr, result>>
          ELSE IF r.msg = "panic" THEN /\ pc' = "aborted"
                                       /\ UNCHANGED <<stderr, result>>
          ELSE /\ stderr' = Report(stderr, r.msg, r.line)
               /\ Returns("Err(General)")
  /\ UNCHANGED <<build, envVars, runs, input, stmts, todo, interp, before, executed>>

\* parser.parse()?
Parse ==
  /\ pc = "parse"
  /\ \E r \in {Parser_parse(Parser_new(toks, runs))} :
       /\ stmts' = r.node
       /\ stderr' = stderr \o r.ps.errs
       /\ IF r.ok THEN /\ pc' = "resolve"
                       /\ UNCHANGED result
          ELSE Returns("Err(Parse)")
  /\ UNCHANGED <<build, envVars, runs, input, toks, todo, interp, before, executed>>

\* resolver.resolve(&statements)?: the distances go into the locals of the
\* interpreter as they are found
Resolve ==
  /\ pc = "resolve"
  /\ \E r \in {Resolver_resolve(Resolver_new(interp.locals), stmts)} :
       /\ interp' = [interp EXCEPT !.locals = r.rs.locals]
       /\ stderr' = stderr \o r.rs.errs
       /\ IF r.ok THEN /\ pc' = "interpret"
                       /\ todo' = stmts
                       /\ UNCHANGED result
          ELSE /\ Returns("Err(Parse)")
               /\ UNCHANGED todo
  /\ UNCHANGED <<build, envVars, runs, input, toks, stmts, before, executed>>

\* One turn of the for loop of Interpreter::interpret: self.execute(statement)?
Execute ==
  /\ pc = "interpret"
  /\ todo # <<>>
  /\ \E r \in {Interpreter_execute(interp, Head(todo))} :
       /\ r.kind # "bound"
       /\ interp' = r.it
       /\ executed' = executed + 1
       /\ todo' = Tail(todo)
       /\ CASE r.kind = "ok" -> UNCHANGED <<pc, result>>
            [] r.kind = "panic" -> /\ pc' = "aborted"
                                   /\ UNCHANGED result
            [] r.kind = "runtime" -> Returns("Err(Runtime)")
            [] r.kind = "break" -> Returns("Err(Break)")
            [] r.kind = "return" -> Returns("Err(Return)")
  /\ UNCHANGED <<build, envVars, runs, input, toks, stmts, stderr, before>>

\* The for loop of Interpreter::interpret is over: Ok(())
Finish ==
  /\ pc = "interpret"
  /\ todo = <<>>
  /\ Returns("Ok")
  /\ UNCHANGED <<build, envVars, runs, input, toks, stmts, todo, interp, stderr,
                 before, executed>>

Next ==
  \/ ReadLine
  \/ ScanTokens
  \/ Parse
  \/ Resolve
  \/ Execute
  \/ Finish

Spec == Init /\ [][Next]_vars

--------------------------------------------------------------------------
(* Claims about Environment, checked under SpecEnv.                        *)

\* The frames of the parent chain of e, innermost first.
RECURSIVE Chain(_, _)
Chain(h, e) == IF h[e].enclosing = 0 THEN <<e>> ELSE <<e>> \o Chain(h, h[e].enclosing)

\* The positions of the chain of e whose frame binds name.
Holders(h, e, name) ==
  {i \in 1..Len(Chain(h, e)) : name \in DOMAIN h[Chain(h, e)[i]].values}

\* The nearest frame of the chain of e that binds name (Holders is not empty).
Nearest(h, e, name) ==
  Chain(h, e)[CHOOSE i \in Holders(h, e, name) : \A j \in Holders(h, e, name) : i <= j]

\* Frame f is the same in h1 and h2 but for the binding of name.
SameBut(h1, h2, f, name) ==
  /\ h1[f].enclosing = h2[f].enclosing
  /\ DOMAIN h1[f].values \ {name} = DOMAIN h2[f].values \ {name}
  /\ \A k \in DOMAIN h1[f].values \ {name} : h1[f].values[k] = h2[f].values[k]

\* C1: get(name) returns the value bound in the nearest frame of the parent
\* chain that holds the name, and fails exactly when no frame of the chain
\* binds it.
C1_GetNearest ==
  last.op = "get" =>
    IF Holders(heap, last.env, last.name) = {}
    THEN last.kind = "err"
    ELSE /\ last.kind = "ok"
         /\ last.v = heap[Nearest(heap, last.env, last.name)].values[last.name]

\* A get served by a parent although the innermost frame has bindings, and a
\* get that failed on a chain of two frames.
C1_Witness ==
  /\ last.op = "get"
  /\ last.kind = "ok"
  /\ heap[last.env].enclosing # 0
  /\ last.name \notin DOMAIN heap[last.env].values
  /\ DOMAIN heap[last.env].values # {}

\* C2: assign(name, value) updates the binding in the nearest frame that
\* already holds the name and creates no binding; when the name is unbound at
\* every level it fails and every frame is left unchanged.
C2_AssignNearest ==
  [][last'.op = "assign" =>
       IF Holders(heap, last'.env, last'.name) = {}
       THEN last'.kind = "err" /\ heap' = heap
       ELSE LET f == Nearest(heap, last'.env, last'.name) IN
            /\ last'.kind = "ok"
            /\ Len(heap') = Len(heap)
            /\ heap'[f].values[last'.name] = last'.val
            /\ \A g \in 1..Len(heap) :
                 /\ DOMAIN heap'[g].values = DOMAIN heap[g].values
                 /\ SameBut(heap, heap', g, last'.name)
                 /\ g # f => heap'[g] = heap[g]]_vars

\* An assign that reached a parent frame and changed the value bound there.
C2_Witness ==
  /\ last.op = "assign"
  /\ last.kind = "ok"
  /\ heap[last.env].enclosing # 0
  /\ last.name \notin DOMAIN heap[last.env].values
  /\ heap[heap[last.env].enclosing].values[last.name] = last.val

\* C3: define(name, value) always succeeds, writes or overwrites the binding
\* in the innermost frame only, and leaves every parent frame and every other
\* binding of the innermost frame unchanged.
C3_DefineInnermost ==
  [][last'.op = "define" =>
       /\ last'.kind = "ok"
       /\ Len(heap') = Len(heap)
       /\ last'.name \in DOMAIN heap'[last'.env].values
       /\ heap'[last'.env].values[last'.name] = last'.val
       /\ SameBut(heap, heap', last'.env, last'.name)
       /\ \A g \in 1..Len(heap) : g # last'.env => heap'[g] = heap[g]]_vars

\* A define in a child frame that shadows a different value bound to the same
\* name in the parent.
C3_Witness ==
  /\ last.op = "define"
  /\ heap[last.env].enclosing # 0
  /\ last.name \in DOMAIN heap[heap[last.env].enclosing].values
  /\ heap[heap[last.env].enclosing].values[last.name] # last.val
  /\ heap[last.env].values[last.name] = last.val

\* The frames at most `distance` parents above e.
Within(h, e, distance) ==
  {Chain(h, e)[i] : i \in {j \in 1..Len(Chain(h, e)) : j <= distance + 1}}

\* C4: get_at and assign_at read or write only the frame exactly `distance`
\* parents above the starting frame and never touch a frame beyond that
\* distance, whether or not the name is present in that frame.
C4_AtWithinDistance ==
  last.op \in {"get_at", "assign_at"} => last.seen \subseteq Within(heap, last.env, last.dist)


--------------------------------------------------------------------------
(* Claims about the pipeline of Lox::run, checked under Spec.  interp.log  *)
(* is the history of the run in progress: the variable uses, the property  *)
(* reads, the class calls and the function bodies entered, in order.       *)

Log == interp.log

\* C5: neither control signal ever escapes Interpreter::interpret: for every
\* program accepted by the parser and the resolver, each Break is caught by
\* an enclosing while loop and each Return by an enclosing function call, so
\* interpret returns only Ok or a runtime error.
C5_SignalsNeverEscape == result \notin {"Err(Break)", "Err(Return)"}

\* C6: no statement is executed for a source in which the scanner, the
\* parser or the resolver reported an error: Lox::run returns before
\* Interpreter::interpret is called, and the interpreter (its environments,
\* objects and output) is as it was when the line was read; only the side
\* table of distances may have grown.
C6_NoExecutionAfterError ==
  stderr # <<>> =>
    /\ pc # "interpret"
    /\ executed = 0
    /\ [interp EXCEPT !.locals = before.locals] = before

\* A second line, read after a line that defined a global, parsed into
\* statements and was then refused by the resolver.
C6_Witness ==
  /\ pc = "prompt"
  /\ runs = 2
  /\ result = "Err(Parse)"
  /\ stderr # <<>>
  /\ stmts # <<>>
  /\ before.heap # Interpreter_new.heap

\* C7: calling a class that has an init method runs the body of init with
\* this bound to the new instance: every class call that found an init is
\* followed by an entry into the body of an initialiser whose closure binds
\* this to the instance made by the call.
C7_InitBodyRuns ==
  \A i \in DOMAIN Log :
    (Log[i].ev = "new" /\ Log[i].init) =>
      \E j \in DOMAIN Log :
        /\ j > i
        /\ Log[j].ev = "body"
        /\ interp.funs[Log[j].fn].is_initialiser
        /\ THIS \in DOMAIN interp.heap[interp.funs[Log[j].fn].closure].values
        /\ interp.heap[interp.funs[Log[j].fn].closure].values[THIS]
             = Instance(Log[i].inst)

\* C8: reading a property that is not a field but a method of the class
\* returns that method bound to the instance: the function returned closes
\* over a frame that binds this to the instance read.
C8_GetBindsMethod ==
  \A i \in DOMAIN Log :
    (Log[i].ev = "get" /\ Log[i].kind = "method") =>
      /\ Log[i].v.t = "fun"
      /\ THIS \in DOMAIN interp.heap[interp.funs[Log[i].v.n].closure].values
      /\ interp.heap[interp.funs[Log[i].v.n].closure].values[THIS]
           = Instance(Log[i].inst)

\* C9: for every variable use to which the resolver attached a distance d,
\* when the interpreter evaluates the use the frame exactly d parents above
\* the current frame holds a binding for the name.
C9_DistanceHolds ==
  \A i \in DOMAIN Log :
    (Log[i].ev \in {"lookup", "assign"} /\ Log[i].resolved) => Log[i].held

\* C10: a variable captured by a closure reads the binding that was in
\* effect where the function was declared: a read made in the body of a
\* declared function and served by a frame older than the call is served by
\* the frame that held the name in the closure when the function was
\* declared (or by the globals for a name unbound at that time).
C10_ClosureReadsDeclared ==
  \A i \in DOMAIN Log :
    (/\ Log[i].ev = "lookup"
     /\ Log[i].fn # 0
     /\ Log[i].served # 0
     /\ Log[i].served < Log[i].callenv
     /\ interp.funs[Log[i].fn].declared = "fun") =>
      Log[i].served = IF Log[i].name \in DOMAIN interp.funs[Log[i].fn].captured
                      THEN interp.funs[Log[i].fn].captured[Log[i].name]
                      ELSE Globals

\* C11: == and != never raise; == is true exactly when the two operands are
\* the same primitive value or the same function, class or instance, and
\* false otherwise; != is its negation.
C11_EqualityByValueOrIdentity ==
  \A i \in DOMAIN Log :
    (Log[i].ev = "binary" /\ Log[i].op \in {"EqualEqual", "BangEqual"}) =>
      /\ Log[i].kind = "ok"
      /\ Log[i].v = Boolean((Log[i].left = Log[i].right) = (Log[i].op = "EqualEqual"))

\* C12: + concatenates in operand order whenever exactly one operand is a
\* string, whatever the other operand is; it raises a runtime error only
\* when neither operand is a string and they are not both numbers.
C12_PlusConcatenatesWithAnyValue ==
  \A i \in DOMAIN Log :
    (Log[i].ev = "binary" /\ Log[i].op = "Plus") =>
      /\ (Log[i].kind = "runtime") =>
           /\ "str" \notin {Log[i].left.t, Log[i].right.t}
           /\ {Log[i].left.t, Log[i].right.t} # {"num"}
      /\ (/\ "str" \in {Log[i].left.t, Log[i].right.t}
          /\ {Log[i].left.t, Log[i].right.t} \subseteq {"str", "num", "bool", "nil"}) =>
           /\ Log[i].kind = "ok"
           /\ Log[i].v = String(Literal_display(Log[i].left)
                                  \o Literal_display(Log[i].right))

C14_CallablesInvoked ==
  \A i \in DOMAIN Log :
    (Log[i].ev = "call") =>
      (Log[i].invoked <=> /\ Log[i].callee.t \in {"fun", "native", "class"}
                          /\ Log[i].arguments = Log[i].arity)

\* The number of reports with the message msg in errs
RECURSIVE Reports(_, _)
Reports(errs, msg) ==
  IF errs = <<>> THEN 0
  ELSE (IF Head(errs).msg = msg THEN 1 ELSE 0) + Reports(Tail(errs), msg)

\* The number of return statements in statements that are not inside the
\* body of a function or of a method
RECURSIVE TopLevelReturns(_)
TopLevelReturns(statements) ==
  IF statements = <<>> THEN 0
  ELSE Let(Head(statements), LAMBDA stmt :
       (CASE stmt.k = "Return" -> 1
          [] stmt.k = "Block" -> TopLevelReturns(stmt.statements)
          [] stmt.k = "If" ->
               TopLevelReturns(<<stmt.then_branch>>)
                 + (IF stmt.else_branch = NoNode THEN 0
                    ELSE TopLevelReturns(<<stmt.else_branch>>))
          [] stmt.k = "While" -> TopLevelReturns(<<stmt.body>>)
          [] OTHER -> 0)
         + TopLevelReturns(Tail(statements)))

\* C15: the resolver reports "Can't return from top-level code." for every
\* return statement that is not lexically inside a function or a method,
\* whatever statements precede it: the step of the resolver writes one such
\* report for each of them.
C15_TopLevelReturnReported ==
  [][pc = "resolve" =>
       Reports(stderr', "Can't return from top-level code.") = TopLevelReturns(stmts)]_vars

\* Some expression of exprs holds a super expression
RECURSIVE HasSuper(_)
HasSuper(exprs) ==
  exprs # <<>> /\
    Let(Head(exprs), LAMBDA expr :
      \/ expr.k = "Super"
      \/ HasSuper(CASE expr.k = "Assign" -> <<expr.value>>
                    [] expr.k \in {"Binary", "Logical"} -> <<expr.left, expr.right>>
                    [] expr.k = "Call" -> <<expr.callee>> \o expr.arguments
                    [] expr.k = "Get" -> <<expr.object>>
                    [] expr.k = "Grouping" -> <<expr.expression>>
                    [] expr.k = "Set" -> <<expr.object, expr.value>>
                    [] expr.k = "Unary" -> <<expr.right>>
                    [] OTHER -> <<>>)
      \/ HasSuper(Tail(exprs)))

\* Some statement of statements holds a super expression that is not in a
\* method of a class with a superclass; subclass tells whether statements
\* are inside such a method
RECURSIVE MisplacedSuper(_, _)
MisplacedSuper(statements, subclass) ==
  statements # <<>> /\
    Let(Head(statements), LAMBDA stmt :
      \/ CASE stmt.k = "Block" -> MisplacedSuper(stmt.statements, subclass)
           [] stmt.k = "Class" -> MisplacedSuper(stmt.methods, stmt.superclass # NoNode)
           [] stmt.k = "Function" -> MisplacedSuper(stmt.body, subclass)
           [] stmt.k \in {"Expression", "Print"} -> ~subclass /\ HasSuper(<<stmt.expression>>)
           [] stmt.k = "If" ->
                \/ ~subclass /\ HasSuper(<<stmt.condition>>)
                \/ MisplacedSuper(<<stmt.then_branch, stmt.else_branch>>, subclass)
           [] stmt.k = "Return" -> ~subclass /\ HasSuper(<<stmt.value>>)
           [] stmt.k = "Var" -> ~subclass /\ HasSuper(<<stmt.initialiser>>)
           [] stmt.k = "While" ->
                \/ ~subclass /\ HasSuper(<<stmt.condition>>)
                \/ MisplacedSuper(<<stmt.body>>, subclass)
           [] OTHER -> FALSE
      \/ MisplacedSuper(Tail(statements), subclass))

\* C16: a program that uses super outside any class, or in a class that has
\* no superclass, is refused by the resolver: the step of the resolver
\* reports an error and the interpreter is not started.
C16_MisplacedSuperRefused ==
  [][(pc = "resolve" /\ MisplacedSuper(stmts, FALSE)) =>
       (stderr' # <<>> /\ pc' # "interpret")]_vars

\* Some expression of exprs reads the variable name
RECURSIVE HasRead(_, _)
HasRead(exprs, name) ==
  exprs # <<>> /\
    Let(Head(exprs), LAMBDA expr :
      \/ expr.k = "Variable" /\ expr.name.lexeme = name
      \/ HasRead(CASE expr.k = "Assign" -> <<expr.value>>
                   [] expr.k \in {"Binary", "Logical"} -> <<expr.left, expr.right>>
                   [] expr.k = "Call" -> <<expr.callee>> \o expr.arguments
                   [] expr.k = "Get" -> <<expr.object>>
                   [] expr.k = "Grouping" -> <<expr.expression>>
                   [] expr.k = "Set" -> <<expr.object, expr.value>>
                   [] expr.k = "Unary" -> <<expr.right>>
                   [] OTHER -> <<>>, name)
      \/ HasRead(Tail(exprs), name))

\* The number of var statements in a local scope (a block or the body of a
\* function or method) whose initialiser reads the variable they declare;
\* local tells whether statements are in a local scope
RECURSIVE SelfInitialised(_, _)
SelfInitialised(statements, local) ==
  IF statements = <<>> THEN 0
  ELSE Let(Head(statements), LAMBDA stmt :
       (CASE stmt.k = "Block" -> SelfInitialised(stmt.statements, TRUE)
          [] stmt.k = "Class" -> SelfInitialised(stmt.methods, TRUE)
          [] stmt.k = "Function" -> SelfInitialised(stmt.body, TRUE)
          [] stmt.k = "If" -> SelfInitialised(<<stmt.then_branch, stmt.else_branch>>, local)
          [] stmt.k = "While" -> SelfInitialised(<<stmt.body>>, local)
          [] stmt.k = "Var" ->
               IF local /\ HasRead(<<stmt.initialiser>>, stmt.name.lexeme) THEN 1 ELSE 0
          [] OTHER -> 0)
         + SelfInitialised(Tail(statements), local))

\* C17: the resolver reports "Can't read local variable in its own
\* initialiser." for a var statement in a local scope whose initialiser
\* reads the variable it declares, and for no var statement at global
\* scope: the step of the resolver writes one such report for each of the
\* former and none for the latter.
C17_OwnInitialiserReported ==
  [][pc = "resolve" =>
       Reports(stderr', "Can't read local variable in its own initialiser.")
         = SelfInitialised(stmts, FALSE)]_vars

\* The parameters of a function as the declarations the resolver makes of
\* them
RECURSIVE ParamDeclarations(_)
ParamDeclarations(params) ==
  IF params = <<>> THEN <<>>
  ELSE <<VarStmt(Head(params), NoNode)>> \o ParamDeclarations(Tail(params))

\* The number of declarations in statements, and in the scopes nested in
\* them, of a name that the same local scope has already declared.  seen
\* holds the names declared so far in the scope of statements; scope is
\* "global", "local" (a block, or the parameters and body of one function)
\* or "methods" (the methods of a class, which are not declared)
RECURSIVE Duplicates(_, _, _)
Duplicates(statements, seen, scope) ==
  IF statements = <<>> THEN 0
  ELSE Let(Head(statements), LAMBDA stmt :
       Let(stmt.k \in {"Var", "Function", "Class"} /\ scope # "methods", LAMBDA declares :
       (IF declares /\ scope = "local" /\ stmt.name.lexeme \in seen THEN 1 ELSE 0)
         + (CASE stmt.k = "Block" -> Duplicates(stmt.statements, {}, "local")
              [] stmt.k = "Class" -> Duplicates(stmt.methods, {}, "methods")
              [] stmt.k = "Function" ->
                   Duplicates(ParamDeclarations(stmt.params) \o stmt.body, {}, "local")
              [] stmt.k = "If" -> Duplicates(<<stmt.then_branch, stmt.else_branch>>, {}, scope)
              [] stmt.k = "While" -> Duplicates(<<stmt.body>>, {}, scope)
              [] OTHER -> 0)
         + Duplicates(Tail(statements),
                      IF declares THEN seen \cup {stmt.name.lexeme} ELSE seen, scope)))

\* C18: declaring a name twice in one local scope (a block, or the
\* parameters and body of one function) is reported by the resolver as
\* "Already a variable with this name in this scope." and the program is
\* not executed; declaring a global again is not reported.
C18_DuplicateLocalReported ==
  [][pc = "resolve" =>
       /\ Reports(stderr', "Already a variable with this name in this scope.")
            = Duplicates(stmts, {}, "global")
       /\ Duplicates(stmts, {}, "global") > 0 => pc' # "interpret"]_vars

\* The number of tokens among the first i of tokens whose type is in types
Count(tokens, i, types) == Cardinality({j \in 1..i : tokens[j].type \in types})

\* The positions of tokens at which a top-level statement ends: a ; or a }
\* outside every pair of braces and of brackets, with tokens after it
Boundaries(tokens) ==
  {i \in 1..(Len(tokens) - 2) :
     /\ tokens[i].type \in {"Semicolon", "RightBrace"}
     /\ Count(tokens, i, {"LeftBrace", "LeftBracket"})
          = Count(tokens, i, {"RightBrace", "RightBracket"})}

\* The number of syntax errors the parser reports for tokens
ParseErrors(tokens) == Len(Parser_parse(Parser_new(tokens, runs)).ps.errs)

\* C19: a single syntax error in a top-level statement does not keep the
\* syntax errors of the statements after it from being reported, also when
\* the statement is a block with the error nested inside: whenever the
\* tokens up to the end of a top-level statement hold a single syntax error
\* and the tokens after it hold syntax errors of their own, the step of the
\* parser reports the former and as many errors as the latter hold.
C19_LaterErrorsReported ==
  [][pc = "parse" =>
       \A i \in Boundaries(toks) :
         (/\ ParseErrors(SubSeq(toks, 1, i) \o <<Token_new_eof(toks[i].line)>>) = 1
          /\ ParseErrors(SubSeq(toks, i + 1, Len(toks))) >= 1) =>
           Len(stderr') >= 1 + ParseErrors(SubSeq(toks, i + 1, Len(toks)))]_vars

\* The characters for which Scanner::scan_token has an arm
Expected ==
  Letters \cup Digits
    \cup {"_", "(", ")", "{", "}", ",", ".", "+", "-", "*", ";", "!", "=", "<", ">",
          "/", " ", "\r", "\t", "\n", "\""}

\* The number of characters of source that the scanner has no arm for, in a
\* source without strings and comments; 0 for a source that has them
Unexpected(source) ==
  IF \E i \in DOMAIN source : source[i] \in {"\"", "/"} THEN 0
  ELSE Cardinality({i \in DOMAIN source : source[i] \notin Expected})

\* C20: the pipeline keeps going after the first error of a stage and
\* reports the later errors of the same source as well: a source with two
\* unexpected characters gets two reports from the scanner, a source with
\* two malformed top-level statements two reports from the parser, and a
\* source with two scoping violations two reports from the resolver.
C20_LaterErrorsOfAStageReported ==
  [][/\ (pc = "scan" /\ Unexpected(input) >= 2) => Len(stderr') >= 2
     /\ pc = "parse" =>
          \A i \in Boundaries(toks) :
            (/\ ParseErrors(SubSeq(toks, 1, i) \o <<Token_new_eof(toks[i].line)>>) >= 1
             /\ ParseErrors(SubSeq(toks, i + 1, Len(toks))) >= 1) =>
              Len(stderr') >= 2
     /\ (/\ pc = "resolve"
         /\ TopLevelReturns(stmts) + SelfInitialised(stmts, FALSE)
              + Duplicates(stmts, {}, "global") >= 2) =>
          Len(stderr') >= 2]_vars

\* The source with every block comment replaced by a space and by the line
\* ends it holds; counter is the number of comments open at the start
RECURSIVE Uncommented(_, _)
Uncommented(source, counter) ==
  IF source = <<>> THEN <<>>
  ELSE IF Len(source) >= 2 /\ SubSeq(source, 1, 2) = <<"/", "*">>
  THEN Uncommented(Tail(Tail(source)), counter + 1)
  ELSE IF counter > 0 /\ Len(source) >= 2 /\ SubSeq(source, 1, 2) = <<"*", "/">>
  THEN (IF counter = 1 THEN <<" ">> ELSE <<>>)
         \o Uncommented(Tail(Tail(source)), counter - 1)
  ELSE (IF counter = 0 \/ Head(source) = "\n" THEN <<Head(source)>> ELSE <<>>)
         \o Uncommented(Tail(source), counter)

\* The number of block comments still open at the end of source
RECURSIVE OpenComments(_, _)
OpenComments(source, counter) ==
  IF source = <<>> THEN counter
  ELSE IF Len(source) >= 2 /\ SubSeq(source, 1, 2) = <<"/", "*">>
  THEN OpenComments(Tail(Tail(source)), counter + 1)
  ELSE IF counter > 0 /\ Len(source) >= 2 /\ SubSeq(source, 1, 2) = <<"*", "/">>
  THEN OpenComments(Tail(Tail(source)), counter - 1)
  ELSE OpenComments(Tail(source), counter)

\* source holds a block comment, and neither a string nor a line comment
OnlyBlockComments(source) ==
  /\ \E i \in 1..(Len(source) - 1) : SubSeq(source, i, i + 1) = <<"/", "*">>
  /\ \A i \in DOMAIN source : source[i] # "\""
  /\ \A i \in 1..(Len(source) - 1) : SubSeq(source, i, i + 1) # <<"/", "/">>

\* C21: a block comment, also an empty one and one that holds nested block
\* comments, produces no token and scanning resumes just after the */ that
\* matches its /*: the scanner yields the tokens of the source without its
\* comments; only a source with a /* that is never matched fails, with
\* "Unterminated block comment.".
C21_BlockCommentSkipped ==
  [][(pc = "scan" /\ OnlyBlockComments(input)) =>
       IF OpenComments(input, 0) = 0
       THEN /\ pc' = "parse"
            /\ toks' = Scanner_scan_tokens(Scanner_new(Uncommented(input, 0))).tokens
       ELSE /\ pc' = "prompt"
            /\ \E e \in {stderr'[i] : i \in DOMAIN stderr'} :
                 e.msg = "Unterminated block comment."]_vars

\* C22: after a block or a call the current environment of the interpreter
\* is the frame it was before, on every exit path (completion, runtime
\* error, Return, Break); so the current environment is the globals frame
\* whenever Interpreter::interpret has returned, and between the top-level
\* statements it executes.
C22_EnvironmentRestored ==
  /\ pc # "aborted" => interp.environment = Globals
  /\ \A i \in DOMAIN Log : Log[i].ev = "block" => Log[i].after = Log[i].previous

\* interpret returned with a runtime error raised inside a block, after a
\* call left by Return and a loop body left by Break
C22_Witness ==
  /\ pc = "prompt"
  /\ result = "Err(Runtime)"
  /\ interp.environment = Globals
  /\ \A kind \in {"return", "break", "runtime"} :
       \E i \in DOMAIN Log :
         Log[i].ev = "block" /\ Log[i].kind = kind /\ Log[i].env # Log[i].previous

\* The recoveries of the parser on tokens: for each call of synchronise the
\* position of the cursor before and after it and the number of errors
\* reported until then
Syncs(tokens) == Parser_parse(Parser_new(tokens, runs)).ps.syncs

\* The token types that begin a statement
StatementStart == {"Class", "Fun", "Var", "For", "If", "While", "Print", "Return"}

\* The position at which parsing resumes after an error found at position
\* from: the token of the error is discarded, and then tokens up to just
\* after the next ; or just before the next token that begins a statement
\* or ends the file, whichever comes first
ResumePoint(tokens, from) ==
  IF tokens[from + 1].type = "Eof" THEN from
  ELSE CHOOSE q \in (from + 1)..(Len(tokens) - 1) :
         /\ tokens[q].type = "Semicolon" \/ tokens[q + 1].type \in StatementStart \cup {"Eof"}
         /\ \A r \in (from + 1)..(q - 1) :
              tokens[r].type # "Semicolon" /\ tokens[r + 1].type \notin StatementStart

\* C23: after a parse error the parser discards tokens only up to just
\* after the next ; or just before the next token that begins a statement,
\* and parsing resumes at exactly that point, also for an error in a
\* declaration nested in blocks: every recovery ends at that point, and no
\* recovery is followed by another one without an error found in between.
C23_RecoveryStopsAtBoundary ==
  [][pc = "parse" =>
       \A syncs \in {Syncs(toks)} :
         \A k \in DOMAIN syncs :
           /\ syncs[k].to = ResumePoint(toks, syncs[k].from)
           /\ k > 1 => syncs[k].errs > syncs[k - 1].errs]_vars

\* C24: an assignment whose left-hand side is neither a variable nor a
\* property is reported as "Invalid assignment target." at the = token
\* without panic: the left-hand side is the expression returned, no
\* recovery follows the report, so that parsing goes on with the tokens
\* after the assignment, and parse() fails.
C24_InvalidTargetNotFatal ==
  [][pc = "parse" =>
       \A ps \in {Parser_parse(Parser_new(toks, runs)).ps} :
         \A k \in DOMAIN ps.errs :
           ps.errs[k].msg = "Invalid assignment target." =>
             /\ pc' = "prompt" /\ result' = "Err(Parse)"
             /\ stderr'[k] = ps.errs[k]
             /\ \A j \in DOMAIN ps.syncs : ps.syncs[j].errs # k
             /\ \E t \in {ps.targets[i] : i \in DOMAIN ps.targets} :
                  /\ t.errs = k
                  /\ t.equals.type = "Assign"
                  /\ t.equals.line = ps.errs[k].line
                  /\ t.node.k \notin {"None", "Variable", "Get"}]_vars

\* the parser has reported two invalid assignment targets and nothing else
\* for a line that holds a statement between them
C24_Witness ==
  /\ pc = "prompt"
  /\ result = "Err(Parse)"
  /\ Len(stderr) = 2
  /\ \A i \in DOMAIN stderr : stderr[i].msg = "Invalid assignment target."

\* C25: a call with more than 255 arguments is reported as "Can't have more
\* than 255 arguments." and parsing continues with the remaining arguments
\* and the closing bracket: no recovery follows the report, so that no token
\* is discarded, and parse() fails.
C25_TooManyArgumentsNotFatal ==
  [][pc = "parse" =>
       \A r \in {Parser_parse(Parser_new(toks, runs))} :
         \A k \in DOMAIN r.ps.errs :
           r.ps.errs[k].msg = "Can't have more than 255 arguments." =>
             /\ pc' = "prompt" /\ result' = "Err(Parse)"
             /\ stderr'[k] = r.ps.errs[k]
             /\ \A j \in DOMAIN r.ps.syncs : r.ps.syncs[j].errs # k]_vars

\* The history of the parser on tokens
Trace(tokens) == Parser_parse(Parser_new(tokens, runs)).ps.trace

\* The number of loop bodies being parsed after event i of trace: the bodies
\* entered and not left
Bodies(trace, i) ==
  Cardinality({j \in 1..i : trace[j].ev = "enter"})
    - Cardinality({j \in 1..i : trace[j].ev = "leave"})

\* C26: loop_depth always equals the number of while/for loop bodies being
\* parsed, whether a body was left on the success or on the error path; it
\* is 0 each time parse() starts a top-level declaration, and a break is
\* reported as "Must be inside a loop to use 'break'." exactly when it is
\* in no loop body.
C26_LoopDepthCountsBodies ==
  [][pc = "parse" =>
       \A trace \in {Trace(toks)} :
         \A i \in DOMAIN trace :
           /\ trace[i].depth = Bodies(trace, i)
           /\ trace[i].ev = "declaration" => trace[i].depth = 0
           /\ trace[i].ev = "break" =>
                (trace[i].reported <=> Bodies(trace, i) = 0)]_vars

\* the parser has left a loop body in which an error was found and has then
\* reported a break outside of every loop, and it has accepted a break in a
\* loop body
C26_Witness ==
  /\ pc = "prompt"
  /\ result = "Err(Parse)"
  /\ \E msg \in {stderr[i].msg : i \in DOMAIN stderr} :
       msg = "Must be inside a loop to use 'break'."
  /\ \A trace \in {Trace(toks)} :
       /\ \E i, j, k \in DOMAIN trace :
            /\ i < j /\ j < k
            /\ trace[i].ev = "enter" /\ trace[j].ev = "leave" /\ trace[k].ev = "break"
            /\ i + 1 = j
            /\ trace[k].reported
       /\ \E k \in DOMAIN trace : trace[k].ev = "break" /\ ~trace[k].reported

\* The lines of Sources that hold a for loop with a break, and for each the
\* same program with the loop written out as blocks and a while loop
ForSources == {SrcForScope, SrcForNested}
Lowered(source) ==
  CASE source = SrcForScope -> LoweredForScope
    [] source = SrcForNested -> LoweredForNested

\* Lox::run on source with the interpreter it: the result of the last
\* statement executed and the interpreter after it
Outcome(source, it) ==
  Let(Parser_parse(Parser_new(Scanner_scan_tokens(Scanner_new(source)).tokens, runs)),
      LAMBDA parsed :
  Let(Resolver_resolve(Resolver_new(it.locals), parsed.node), LAMBDA resolved :
  IF ~parsed.ok \/ ~resolved.ok THEN IR("runtime", Nil, it)
  ELSE Interpreter_execute_all([it EXCEPT !.locals = resolved.rs.locals], parsed.node)))

\* C27: for (init; cond; incr) body executes like the block of init and a
\* while loop on cond (true when absent) whose body is the block of body and
\* incr: the line with the for loop ends with the result, the values printed
\* and the frames that the line with the loop written out gives, for a break
\* in the body, a loop nested in the body and an initialiser that shadows a
\* global.
C27_ForRunsAsWhile ==
  [][pc = "interpret" /\ pc' = "prompt" /\ input \in ForSources =>
       \A r \in {Outcome(Lowered(input), before)} :
         /\ r.kind = "ok" /\ result' = "Ok"
         /\ interp'.printed = r.it.printed
         /\ interp'.heap = r.it.heap
         /\ interp'.environment = r.it.environment]_vars

\* The last n values printed
LastPrinted(n) ==
  IF Len(interp.printed) < n THEN <<>>
  ELSE SubSeq(interp.printed, Len(interp.printed) - n + 1, Len(interp.printed))

\* the line `var i = 7; for (var i = 0; i < 3; i = i + 1) { if (i == 2) break;
\* print i; } print i;` has printed 0, 1 and 7, and the line with the nested
\* loop, in the run before or after it, 0 and 1: the break ended the loop
\* before its increment and no outer loop
C27_Witness ==
  /\ pc = "prompt"
  /\ result = "Ok"
  /\ \/ /\ input = SrcForScope
        /\ LastPrinted(3) = <<Number(0), Number(1), Number(7)>>
        /\ Len(interp.printed) = 5
     \/ /\ input = SrcForNested
        /\ LastPrinted(2) = <<Number(0), Number(1)>>
        /\ Len(interp.printed) = 5

\* The binary expressions in expr, below groupings and unary operators too
RECURSIVE Binaries(_)
Binaries(expr) ==
  CASE expr.k = "Binary" -> {expr} \cup Binaries(expr.left) \cup Binaries(expr.right)
    [] expr.k = "Grouping" -> Binaries(expr.expression)
    [] expr.k = "Unary" -> Binaries(expr.right)
    [] OTHER -> {}

\* The binary expressions in the print and expression statements of the
\* top level of statements
TopBinaries(statements) ==
  UNION {Binaries(statements[i].expression) :
           i \in {j \in DOMAIN statements : statements[j].k \in {"Print", "Expression"}}}

\* The precedence level of a binary operator
Level(type) ==
  CASE type \in {"Minus", "Plus"} -> "term"
    [] type \in {"Slash", "Star"} -> "factor"
    [] type \in {"Greater", "GreaterEqual", "Less", "LessEqual"} -> "comparison"
    [] OTHER -> "equality"

\* C28: the binary operators of one precedence level are left-associative:
\* the right operand of a binary expression is never a binary expression of
\* the same level (a - b - c is Binary(Binary(a, -, b), -, c)), so that the
\* line `print 1 - 2 - 3; print 8 / 4 * 2; print 1 - 2 + 3;` prints -4, 4
\* and 2.
C28_LeftAssociative ==
  [][/\ pc = "parse" =>
          \A b \in TopBinaries(stmts') :
            b.right.k = "Binary" =>
              Level(b.right.operator.type) # Level(b.operator.type)
     /\ pc = "interpret" /\ pc' = "prompt" /\ input = SrcAssociative =>
          /\ result' = "Ok"
          /\ Len(interp'.printed) >= 3
          /\ SubSeq(interp'.printed, Len(interp'.printed) - 2, Len(interp'.printed))
               = <<Number(-4), Number(4), Number(2)>>]_vars

\* The positions of the cursor at which the turns of the declaration loop
\* of Parser::parse began, in order, in the history trace
Turns(trace) ==
  SelectSeq(trace, LAMBDA e : e.ev = "declaration")

\* C29: Parser::parse terminates on every token sequence that ends with
\* EOF: every turn of its declaration loop, whether the declaration succeeds
\* or fails and is recovered by synchronise, moves the cursor forward by a
\* token at least, and the cursor never goes past the EOF token, where the
\* loop ends.
C29_ParseAdvances ==
  [][pc = "parse" =>
       \A r \in {Parser_parse(Parser_new(toks, runs))} :
         \A turns \in {Turns(r.ps.trace)} :
           /\ toks[Len(toks)].type = "Eof"
           /\ \A i \in DOMAIN turns :
                turns[i].current <
                  (IF i < Len(turns) THEN turns[i + 1].current ELSE r.ps.current)
           /\ r.ps.current = Len(toks) - 1
           /\ \A j \in DOMAIN r.ps.syncs :
                r.ps.syncs[j].from <= r.ps.syncs[j].to /\ r.ps.syncs[j].to <= Len(toks) - 1
           /\ pc' # "parse"]_vars

\* the parser has ended at the EOF token of a line of which it parsed a
\* declaration and failed and recovered another: once with tokens discarded
\* by synchronise and once with the cursor at EOF already
C29_Witness ==
  /\ pc = "prompt"
  /\ result = "Err(Parse)"
  /\ \A r \in {Parser_parse(Parser_new(toks, runs))} :
       /\ r.ps.current = Len(toks) - 1
       /\ Len(Turns(r.ps.trace)) > Len(r.ps.syncs)
       /\ \E j \in DOMAIN r.ps.syncs : r.ps.syncs[j].from < r.ps.syncs[j].to
       /\ \E j \in DOMAIN r.ps.syncs : r.ps.syncs[j].from = Len(toks) - 1

\* C30: the state of the resolver is balanced across every statement,
\* whether or not an error was reported in it or before it: after each
\* top-level statement the scope stack is empty and the current-function
\* and current-class tags are None.
C30_ResolverBalanced ==
  [][pc = "resolve" =>
       \A k \in 0..Len(stmts) :
         \A rs \in {Resolver_resolve(Resolver_new(interp.locals), SubSeq(stmts, 1, k)).rs} :
           /\ rs.scopes = <<>>
           /\ rs.current_function_type = "None"
           /\ rs.current_class_type = "None"]_vars

==========================================================================
